---------------------------- MODULE Spec2Model ----------------------------
(***************************************************************************)
(* A model of the edwards25519 library: the field GF(p), the scalars mod   *)
(* l, the four point coordinate systems and the scalar-multiplication      *)
(* algorithms built on them.                                               *)
(*                                                                         *)
(* TLC's integers are 32 bits wide, so the arithmetic is instantiated over *)
(* a curve of the same shape as edwards25519 and small enough to compute   *)
(* on: p = 2^15 - 19 (prime, p = 5 mod 8, as 2^255 - 19), the curve        *)
(* -x^2 + y^2 = 1 + d*x^2*y^2 with d a non-square, of order 8*l with       *)
(* l = 2^12 + 15 prime (as 2^252 + 27742...493), and the base point with   *)
(* y = 4/5 and even x, of order l.  Encodings are (FieldBits+1)/8 = 2      *)
(* bytes instead of 32, scalars have 4 radix-16 digits instead of 64 and   *)
(* 16 NAF digits instead of 256.  Every formula and every loop is the      *)
(* source's; only these sizes are scaled.                                  *)
(*                                                                         *)
(* The addition chain of MultByPrimeOrder is hard-coded for the real l, so *)
(* it is run on the group Z/8 x Z/l that the curve's points form, with l   *)
(* the real 253-bit order held as 32 little-endian bytes.                  *)
(***************************************************************************)
EXTENDS Integers, Sequences, FiniteSets, TLC

VARIABLES
    pts,     \* the Point objects: id -> (x, y, z, t)
    scs,     \* the Scalar objects: id -> little-endian bytes
    fes,     \* the field.Element objects: id -> limbs
    grp,     \* Points as elements of the abstract group: id -> multiple of a generator
    call     \* the call made: operation, receiver, arguments, heap before, outcome

vars == <<pts, scs, fes, grp, call>>

---------------------------------------------------------------------------
(* Sizes *)

\* The field is GF(2^FieldBits - 19).
FieldBits == 15

P == 2^FieldBits - 19

\* The curve constant d.
D == 40

\* The order of the prime-order subgroup.
L == 2^(FieldBits - 3) + 15

\* Bytes of an encoded field element, point or scalar.
EncLen == (FieldBits + 1) \div 8

\* Signed radix-16 digits of a scalar.
NumDigits == 2 * EncLen

\* Digits of a non-adjacent form.
NafLen == 8 * EncLen

\* The longest slices handed to the multi-scalar multiplications.
MaxN == 3

---------------------------------------------------------------------------
(* Field elements, as the residue they represent *)

FeAdd(a, b) == (a + b) % P

FeSubtract(a, b) == (a + P - b) % P

FeNegate(a) == FeSubtract(0, a)

FeMultiply(x, y) == (x * y) % P

FeSquare(x) == (x * x) % P

\* TLC evaluates an operator's argument at its first use.  The loops below
\* hold values, as the code's loops do: each tests Evaluated(acc) on entry.
Evaluated(x) == x = x

RECURSIVE FePow(_, _)
FePow(x, e) ==
    IF Evaluated(x) /\ e = 0 THEN 1
    ELSE LET h == FePow(x, e \div 2)
             hh == FeSquare(h)
         IN IF e % 2 = 1 THEN FeMultiply(hh, x) ELSE hh

FeInvert(z) == FePow(z, P - 2)

FePow22523(x) == FePow(x, (P - 5) \div 8)

FeEqual(v, u) == IF v = u THEN 1 ELSE 0

FeSelect(a, b, cond) == IF cond = 1 THEN a ELSE b

FeCondNegate(u, cond) == FeSelect(FeNegate(u), u, cond)

\* IsNegative that never reports a set low bit.
FeIsNegativeNever(v) == 0

FeIsNegative(v) == v % 2

FeAbsolute(u) == FeCondNegate(u, FeIsNegative(u))

sqrtM1 == FePow(2, (P - 1) \div 4)

BitOr(a, b) == IF a = 1 \/ b = 1 THEN 1 ELSE 0

\* SqrtRatio reporting a square whenever one of the three checks matches.
FeSqrtRatioAnyCheck(u, v) ==
    LET v2   == FeSquare(v)
        uv3  == FeMultiply(u, FeMultiply(v2, v))
        uv7  == FeMultiply(uv3, FeSquare(v2))
        r0   == FeMultiply(uv3, FePow22523(uv7))
        check == FeMultiply(v, FeSquare(r0))
        uNeg == FeNegate(u)
        correctSignSqrt  == FeEqual(check, u)
        flippedSignSqrt  == FeEqual(check, uNeg)
        flippedSignSqrtI == FeEqual(check, FeMultiply(uNeg, sqrtM1))
        rPrime == FeMultiply(r0, sqrtM1)
        r1   == FeSelect(rPrime, r0, BitOr(flippedSignSqrt, flippedSignSqrtI))
    IN <<FeAbsolute(r1),
         BitOr(correctSignSqrt, BitOr(flippedSignSqrt, flippedSignSqrtI))>>

\* SqrtRatio with a receiver distinct from u and v: <<r, wasSquare>>.
FeSqrtRatio(u, v) ==
    LET v2   == FeSquare(v)
        uv3  == FeMultiply(u, FeMultiply(v2, v))
        uv7  == FeMultiply(uv3, FeSquare(v2))
        r0   == FeMultiply(uv3, FePow22523(uv7))
        check == FeMultiply(v, FeSquare(r0))
        uNeg == FeNegate(u)
        correctSignSqrt  == FeEqual(check, u)
        flippedSignSqrt  == FeEqual(check, uNeg)
        flippedSignSqrtI == FeEqual(check, FeMultiply(uNeg, sqrtM1))
        rPrime == FeMultiply(r0, sqrtM1)
        r1   == FeSelect(rPrime, r0, BitOr(flippedSignSqrt, flippedSignSqrtI))
    IN <<FeAbsolute(r1), BitOr(correctSignSqrt, flippedSignSqrt)>>

---------------------------------------------------------------------------
(* The four coordinate systems and their conversions *)

d2 == FeAdd(D, D)

PointRec(x, y, z, t) == [x |-> x, y |-> y, z |-> z, t |-> t]

\* A Point that was declared and never set: all four coordinates zero.
ZeroValue == PointRec(0, 0, 0, 0)

Identity == PointRec(0, 1, 1, 0)

\* The base point: y = 4/5, x the even root.
GeneratorY == FeMultiply(4, FeInvert(5))

GeneratorX == FeSqrtRatio(FeSubtract(FeSquare(GeneratorY), 1),
                          FeAdd(FeMultiply(D, FeSquare(GeneratorY)), 1))[1]

Generator == PointRec(GeneratorX, GeneratorY, 1, FeMultiply(GeneratorX, GeneratorY))

P1xP1Zero == [X |-> 0, Y |-> 1, Z |-> 1, T |-> 1]

P2Zero == [X |-> 0, Y |-> 1, Z |-> 1]

ProjCachedZero == [YplusX |-> 1, YminusX |-> 1, Z |-> 1, T2d |-> 0]

AffineCachedZero == [YplusX |-> 1, YminusX |-> 1, T2d |-> 0]

P2FromP1xP1(p) ==
    [X |-> FeMultiply(p.X, p.T), Y |-> FeMultiply(p.Y, p.Z), Z |-> FeMultiply(p.Z, p.T)]

P2FromP3(p) == [X |-> p.x, Y |-> p.y, Z |-> p.z]

fromP1xP1(p) ==
    PointRec(FeMultiply(p.X, p.T), FeMultiply(p.Y, p.Z),
             FeMultiply(p.Z, p.T), FeMultiply(p.X, p.Y))

fromP2(p) ==
    PointRec(FeMultiply(p.X, p.Z), FeMultiply(p.Y, p.Z),
             FeSquare(p.Z), FeMultiply(p.X, p.Y))

ProjCachedFromP3(p) ==
    [YplusX |-> FeAdd(p.y, p.x), YminusX |-> FeSubtract(p.y, p.x),
     Z |-> p.z, T2d |-> FeMultiply(p.t, d2)]

AffineCachedFromP3(p) ==
    LET invZ == FeInvert(p.z)
    IN [YplusX  |-> FeMultiply(FeAdd(p.y, p.x), invZ),
        YminusX |-> FeMultiply(FeSubtract(p.y, p.x), invZ),
        T2d     |-> FeMultiply(FeMultiply(p.t, d2), invZ)]

---------------------------------------------------------------------------
(* Addition, subtraction, doubling, negation, equality *)

P1xP1Add(p, q) ==
    LET YplusX  == FeAdd(p.y, p.x)
        YminusX == FeSubtract(p.y, p.x)
        PP   == FeMultiply(YplusX, q.YplusX)
        MM   == FeMultiply(YminusX, q.YminusX)
        TT2d == FeMultiply(p.t, q.T2d)
        ZZ   == FeMultiply(p.z, q.Z)
        ZZ2  == FeAdd(ZZ, ZZ)
    IN [X |-> FeSubtract(PP, MM), Y |-> FeAdd(PP, MM),
        Z |-> FeAdd(ZZ2, TT2d), T |-> FeSubtract(ZZ2, TT2d)]

P1xP1Sub(p, q) ==
    LET YplusX  == FeAdd(p.y, p.x)
        YminusX == FeSubtract(p.y, p.x)
        PP   == FeMultiply(YplusX, q.YminusX)
        MM   == FeMultiply(YminusX, q.YplusX)
        TT2d == FeMultiply(p.t, q.T2d)
        ZZ   == FeMultiply(p.z, q.Z)
        ZZ2  == FeAdd(ZZ, ZZ)
    IN [X |-> FeSubtract(PP, MM), Y |-> FeAdd(PP, MM),
        Z |-> FeSubtract(ZZ2, TT2d), T |-> FeAdd(ZZ2, TT2d)]

P1xP1AddAffine(p, q) ==
    LET YplusX  == FeAdd(p.y, p.x)
        YminusX == FeSubtract(p.y, p.x)
        PP   == FeMultiply(YplusX, q.YplusX)
        MM   == FeMultiply(YminusX, q.YminusX)
        TT2d == FeMultiply(p.t, q.T2d)
        Z2   == FeAdd(p.z, p.z)
    IN [X |-> FeSubtract(PP, MM), Y |-> FeAdd(PP, MM),
        Z |-> FeAdd(Z2, TT2d), T |-> FeSubtract(Z2, TT2d)]

P1xP1Double(p) ==
    LET XX  == FeSquare(p.X)
        YY  == FeSquare(p.Y)
        ZZ  == FeSquare(p.Z)
        ZZ2 == FeAdd(ZZ, ZZ)
        XplusYsq == FeSquare(FeAdd(p.X, p.Y))
        vY  == FeAdd(YY, XX)
        vZ  == FeSubtract(YY, XX)
    IN [X |-> FeSubtract(XplusYsq, vY), Y |-> vY,
        Z |-> vZ, T |-> FeSubtract(ZZ2, vZ)]

\* v.Add(p, q) and v.Subtract(p, q): the value written to v.
PointAdd(p, q) == fromP1xP1(P1xP1Add(p, ProjCachedFromP3(q)))

PointSubtract(p, q) == fromP1xP1(P1xP1Sub(p, ProjCachedFromP3(q)))

PointNegate(p) == PointRec(FeNegate(p.x), p.y, p.z, FeNegate(p.t))

PointEqual(v, u) ==
    LET t1 == FeMultiply(v.x, u.z)
        t2 == FeMultiply(u.x, v.z)
        t3 == FeMultiply(v.y, u.z)
        t4 == FeMultiply(u.y, v.z)
    IN IF FeEqual(t1, t2) = 1 /\ FeEqual(t3, t4) = 1 THEN 1 ELSE 0

ProjCachedSelect(a, b, cond) ==
    [YplusX |-> FeSelect(a.YplusX, b.YplusX, cond),
     YminusX |-> FeSelect(a.YminusX, b.YminusX, cond),
     Z |-> FeSelect(a.Z, b.Z, cond), T2d |-> FeSelect(a.T2d, b.T2d, cond)]

AffineCachedSelect(a, b, cond) ==
    [YplusX |-> FeSelect(a.YplusX, b.YplusX, cond),
     YminusX |-> FeSelect(a.YminusX, b.YminusX, cond),
     T2d |-> FeSelect(a.T2d, b.T2d, cond)]

\* Swap(YplusX, YminusX, cond), then T2d.condNeg(cond).
ProjCachedCondNeg(v, cond) ==
    [YplusX |-> FeSelect(v.YminusX, v.YplusX, cond),
     YminusX |-> FeSelect(v.YplusX, v.YminusX, cond),
     Z |-> v.Z, T2d |-> FeCondNegate(v.T2d, cond)]

AffineCachedCondNeg(v, cond) ==
    [YplusX |-> FeSelect(v.YminusX, v.YplusX, cond),
     YminusX |-> FeSelect(v.YplusX, v.YminusX, cond),
     T2d |-> FeCondNegate(v.T2d, cond)]

\* isOnCurve without the XY = TZ check.
isOnCurveFirstEquation(X, Y, Z, T) ==
    FeEqual(FeSubtract(FeSquare(Y), FeSquare(X)),
            FeAdd(FeMultiply(D, FeSquare(T)), FeSquare(Z))) = 1

isOnCurve(X, Y, Z, T) ==
    LET XX == FeSquare(X)
        YY == FeSquare(Y)
        ZZ == FeSquare(Z)
        TT == FeSquare(T)
    IN IF FeEqual(FeSubtract(YY, XX), FeAdd(FeMultiply(D, TT), ZZ)) # 1
       THEN FALSE
       ELSE FeEqual(FeMultiply(X, Y), FeMultiply(T, Z)) = 1

---------------------------------------------------------------------------
(* Scalars: EncLen little-endian bytes holding a value below l *)

RECURSIVE LittleEndian(_)
LittleEndian(b) == IF b = <<>> THEN 0 ELSE Head(b) + 256 * LittleEndian(Tail(b))

RECURSIVE ToBytes(_, _)
ToBytes(n, len) == IF len = 0 THEN <<>> ELSE <<n % 256>> \o ToBytes(n \div 256, len - 1)

ScFromInt(n) == ToBytes(n % L, EncLen)

ScAdd(x, y) == ScFromInt(LittleEndian(x) + LittleEndian(y))

ScSubtract(x, y) == ScFromInt(LittleEndian(x) + L - LittleEndian(y))

ScNegate(x) == ScFromInt(L - LittleEndian(x))

ScMultiply(x, y) == ScFromInt(LittleEndian(x) * LittleEndian(y))

scMinusOne == ToBytes(L - 1, EncLen)

\* isReduced with only the top byte compared.
isReducedTopByte(s) == s[EncLen] <= scMinusOne[EncLen]

\* The bytes are compared with those of l - 1 from the top down.
RECURSIVE isReducedLoop(_, _)
isReducedLoop(s, i) ==
    IF i < 1 THEN TRUE
    ELSE IF s[i] > scMinusOne[i] THEN FALSE
    ELSE IF s[i] < scMinusOne[i] THEN TRUE
    ELSE isReducedLoop(s, i - 1)

isReduced(s) == isReducedLoop(s, EncLen)

\* The unsigned radix-16 digits, digit i at index i + 1.
Nibbles(b) ==
    [k \in 1..(2 * Len(b)) |->
        IF (k - 1) % 2 = 0 THEN b[((k - 1) \div 2) + 1] % 16
                           ELSE b[((k - 1) \div 2) + 1] \div 16]

\* Recentre digits i..n-2: carry = (digit + 8) >> 4 moves to the next digit.
RECURSIVE Recenter(_, _)
Recenter(digits, i) ==
    IF i >= Len(digits) THEN digits
    ELSE LET carry == (digits[i] + 8) \div 16
         IN Recenter([digits EXCEPT ![i] = @ - 16 * carry, ![i + 1] = @ + carry], i + 1)

\* The digits without the recentring: the nibbles as they are.
signedRadix16Unsigned(s) == Nibbles(s)

signedRadix16(s) == Recenter(Nibbles(s), 1)

\* The sliding window over the bits of s from position pos; digit i at index i + 1.
RECURSIVE NafLoop(_, _, _, _, _)
NafLoop(value, w, pos, carry, naf) ==
    IF pos >= NafLen THEN naf
    ELSE LET width  == 2^w
             window == carry + ((value \div 2^pos) % width)
         IN IF window % 2 = 0
            THEN NafLoop(value, w, pos + 1, carry, naf)
            ELSE IF window < width \div 2
                 THEN NafLoop(value, w, pos + w, 0, [naf EXCEPT ![pos + 1] = window])
                 ELSE NafLoop(value, w, pos + w, 1,
                              [naf EXCEPT ![pos + 1] = window - width])

nonAdjacentForm(s, w) == NafLoop(LittleEndian(s), w, 0, 0, [i \in 1..NafLen |-> 0])

---------------------------------------------------------------------------
(* Lookup tables *)

\* points[i] = (i+1)*Q for i = 0..7, entry i at index i + 1.
RECURSIVE ProjTableFill(_, _)
ProjTableFill(q, points) ==
    IF Evaluated(points) /\ Len(points) = 8 THEN points
    ELSE ProjTableFill(q, Append(points,
            ProjCachedFromP3(fromP1xP1(P1xP1Add(q, points[Len(points)])))))

ProjLookupTableFromP3(q) == ProjTableFill(q, <<ProjCachedFromP3(q)>>)

RECURSIVE AffineTableFill(_, _)
AffineTableFill(q, points) ==
    IF Evaluated(points) /\ Len(points) = 8 THEN points
    ELSE AffineTableFill(q, Append(points,
            AffineCachedFromP3(fromP1xP1(P1xP1AddAffine(q, points[Len(points)])))))

AffineLookupTableFromP3(q) == AffineTableFill(q, <<AffineCachedFromP3(q)>>)

\* points[i] = (2i+1)*Q for i = 0..7.
RECURSIVE NafTableFill(_, _)
NafTableFill(q2, points) ==
    IF Evaluated(q2) /\ Evaluated(points) /\ Len(points) = 8 THEN points
    ELSE NafTableFill(q2, Append(points,
            ProjCachedFromP3(fromP1xP1(P1xP1Add(q2, points[Len(points)])))))

NafLookupTable5FromP3(q) == NafTableFill(PointAdd(q, q), <<ProjCachedFromP3(q)>>)

Abs(x) == IF x < 0 THEN -x ELSE x

RECURSIVE ProjSelectLoop(_, _, _, _)
ProjSelectLoop(points, xabs, j, dest) ==
    IF Evaluated(dest) /\ j > 8 THEN dest
    ELSE ProjSelectLoop(points, xabs, j + 1,
            ProjCachedSelect(points[j], dest, IF xabs = j THEN 1 ELSE 0))

ProjSelectInto(points, x) ==
    ProjCachedCondNeg(ProjSelectLoop(points, Abs(x), 1, ProjCachedZero),
                      IF x < 0 THEN 1 ELSE 0)

RECURSIVE AffineSelectLoop(_, _, _, _)
AffineSelectLoop(points, xabs, j, dest) ==
    IF Evaluated(dest) /\ j > 8 THEN dest
    ELSE AffineSelectLoop(points, xabs, j + 1,
            AffineCachedSelect(points[j], dest, IF xabs = j THEN 1 ELSE 0))

AffineSelectInto(points, x) ==
    AffineCachedCondNeg(AffineSelectLoop(points, Abs(x), 1, AffineCachedZero),
                        IF x < 0 THEN 1 ELSE 0)

NafSelectInto(points, x) == points[(x \div 2) + 1]

\* p -> 256*p: seven doublings through P2, the eighth converted to P3.
RECURSIVE DoubleTimes(_, _)
DoubleTimes(tmp2, n) ==
    IF Evaluated(tmp2) /\ n = 1 THEN P1xP1Double(tmp2)
    ELSE DoubleTimes(P2FromP1xP1(P1xP1Double(tmp2)), n - 1)

\* Table i is built from 256^i * B, table i at index i + 1.
RECURSIVE BasepointTableFill(_, _)
BasepointTableFill(p, tables) ==
    IF Evaluated(p) /\ Evaluated(tables) /\ Len(tables) = NumDigits \div 2 THEN tables
    ELSE BasepointTableFill(fromP1xP1(DoubleTimes(P2FromP3(p), 8)),
                            Append(tables, AffineLookupTableFromP3(p)))

basepointTable == BasepointTableFill(Generator, <<>>)

---------------------------------------------------------------------------
(* Scalar multiplication.  h is the heap of Points, v the receiver's id;   *)
(* each operator gives the heap the call leaves.                           *)

\* Four doublings: tmp2 in P2 to 16*tmp2 in P1xP1.
Mul16(tmp2) ==
    P1xP1Double(P2FromP1xP1(P1xP1Double(P2FromP1xP1(
        P1xP1Double(P2FromP1xP1(P1xP1Double(tmp2)))))))

\* for i := from; i < NumDigits; i += 2: v += basepointTable[i/2][digits[i]]
RECURSIVE BasepointAccumulate(_, _, _)
BasepointAccumulate(v, digits, i) ==
    IF Evaluated(v) /\ i >= NumDigits THEN v
    ELSE BasepointAccumulate(
            fromP1xP1(P1xP1AddAffine(v,
                AffineSelectInto(basepointTable[(i \div 2) + 1], digits[i + 1]))),
            digits, i + 2)

\* BasepointMul without the four doublings between the two digit passes.
BasepointMulNoDoublings(h, v, x) ==
    LET digits == signedRadix16(x)
        odd    == BasepointAccumulate(Identity, digits, 1)
    IN [h EXCEPT ![v] = BasepointAccumulate(odd, digits, 0)]

BasepointMul(h, v, x) ==
    LET digits == signedRadix16(x)
        odd    == BasepointAccumulate(Identity, digits, 1)
        times16 == fromP1xP1(Mul16(P2FromP3(odd)))
    IN [h EXCEPT ![v] = BasepointAccumulate(times16, digits, 0)]

\* for i := from; i >= 0; i--: tmp1 = 16*tmp1 + table[digits[i]]
RECURSIVE ScalarMulLoop(_, _, _, _)
ScalarMulLoop(table, digits, i, tmp1) ==
    IF Evaluated(tmp1) /\ i < 0 THEN tmp1
    ELSE LET v == fromP1xP1(Mul16(P2FromP1xP1(tmp1)))
         IN ScalarMulLoop(table, digits, i - 1,
                          P1xP1Add(v, ProjSelectInto(table, digits[i + 1])))

\* ScalarMul with v.Zero() moved before table.FromP3(q).
ScalarMulZeroFirst(h, v, x, q) ==
    LET h1     == [h EXCEPT ![v] = Identity]
        table  == ProjLookupTableFromP3(h1[q])
        digits == signedRadix16(x)
        tmp1   == P1xP1Add(h1[v], ProjSelectInto(table, digits[NumDigits]))
    IN [h1 EXCEPT ![v] = fromP1xP1(ScalarMulLoop(table, digits, NumDigits - 2, tmp1))]

ScalarMul(h, v, x, q) ==
    LET table  == ProjLookupTableFromP3(h[q])
        h1     == [h EXCEPT ![v] = Identity]
        digits == signedRadix16(x)
        tmp1   == P1xP1Add(h1[v], ProjSelectInto(table, digits[NumDigits]))
    IN [h1 EXCEPT ![v] = fromP1xP1(ScalarMulLoop(table, digits, NumDigits - 2, tmp1))]

\* for j := range tables: v += tables[j][digits[j][i]]
RECURSIVE LookupAndAdd(_, _, _, _, _)
LookupAndAdd(v, tables, digits, i, j) ==
    IF Evaluated(v) /\ j > Len(tables) THEN v
    ELSE LookupAndAdd(
            fromP1xP1(P1xP1Add(v, ProjSelectInto(tables[j], digits[j][i + 1]))),
            tables, digits, i, j + 1)

\* The receiver is read as it stands in the first lookup-and-add; the value
\* it holds at the end is the P3 whose P2 part is tmp2 (v is written after
\* every addition and tmp2 is set from it).
RECURSIVE MultiScalarMultRun(_, _, _, _)
MultiScalarMultRun(tables, digits, i, v) ==
    IF Evaluated(v) /\ i < 0 THEN v
    ELSE MultiScalarMultRun(tables, digits, i - 1,
            LookupAndAdd(fromP1xP1(Mul16(P2FromP3(v))), tables, digits, i, 1))

MultiScalarMult(h, v, scalars, points) ==
    LET tables == [j \in 1..Len(points) |-> ProjLookupTableFromP3(h[points[j]])]
        digits == [j \in 1..Len(scalars) |-> signedRadix16(scalars[j])]
        first  == LookupAndAdd(h[v], tables, digits, NumDigits - 1, 1)
    IN [h EXCEPT ![v] = MultiScalarMultRun(tables, digits, NumDigits - 2, first)]

\* for j := range nafs: on a non-zero digit, tmp1 = tmp1 +- tables[j][|digit|]
RECURSIVE VarTimeAdd(_, _, _, _, _)
VarTimeAdd(tmp1, tables, nafs, i, j) ==
    IF Evaluated(tmp1) /\ j > Len(nafs) THEN tmp1
    ELSE LET n == nafs[j][i + 1]
         IN VarTimeAdd(
              IF n > 0 THEN P1xP1Add(fromP1xP1(tmp1), NafSelectInto(tables[j], n))
              ELSE IF n < 0 THEN P1xP1Sub(fromP1xP1(tmp1), NafSelectInto(tables[j], -n))
              ELSE tmp1,
              tables, nafs, i, j + 1)

RECURSIVE VarTimeLoop(_, _, _, _)
VarTimeLoop(tables, nafs, i, tmp2) ==
    IF Evaluated(tmp2) /\ i < 0 THEN tmp2
    ELSE VarTimeLoop(tables, nafs, i - 1,
            P2FromP1xP1(VarTimeAdd(P1xP1Double(tmp2), tables, nafs, i, 1)))

\* VarTimeMultiScalarMult with the accumulator started from the receiver
\* instead of from tmp2.Zero().
VarTimeFromReceiver(h, v, scalars, points) ==
    LET tables == [j \in 1..Len(points) |-> NafLookupTable5FromP3(h[points[j]])]
        nafs   == [j \in 1..Len(scalars) |-> nonAdjacentForm(scalars[j], 5)]
    IN [h EXCEPT ![v] = fromP2(VarTimeLoop(tables, nafs, NafLen - 1, P2FromP3(h[v])))]

VarTimeMultiScalarMult(h, v, scalars, points) ==
    LET tables == [j \in 1..Len(points) |-> NafLookupTable5FromP3(h[points[j]])]
        nafs   == [j \in 1..Len(scalars) |-> nonAdjacentForm(scalars[j], 5)]
    IN [h EXCEPT ![v] = fromP2(VarTimeLoop(tables, nafs, NafLen - 1, P2Zero))]

\* MultByCofactor with two doublings instead of three.
MultByFour(h, v, p) ==
    LET pp1 == P2FromP3(h[p])
        pp2 == P2FromP1xP1(P1xP1Double(pp1))
    IN [h EXCEPT ![v] = fromP1xP1(P1xP1Double(pp2))]

MultByCofactor(h, v, p) ==
    LET pp1 == P2FromP3(h[p])
        pp2 == P2FromP1xP1(P1xP1Double(pp1))
        pp3 == P2FromP1xP1(P1xP1Double(pp2))
    IN [h EXCEPT ![v] = fromP1xP1(P1xP1Double(pp3))]

\* A Point whose x and y are both the zero Element was never initialized.
checkInitialized(p) == ~(p.x = 0 /\ p.y = 0)

---------------------------------------------------------------------------
(* The group law on affine points, to state what the operations compute    *)

Affine(p) ==
    LET invZ == FeInvert(p.z)
    IN <<FeMultiply(p.x, invZ), FeMultiply(p.y, invZ)>>

AffineAdd(a, b) ==
    LET k == FeMultiply(D, FeMultiply(FeMultiply(a[1], b[1]), FeMultiply(a[2], b[2])))
    IN <<FeMultiply(FeAdd(FeMultiply(a[1], b[2]), FeMultiply(a[2], b[1])),
                    FeInvert(FeAdd(1, k))),
         FeMultiply(FeAdd(FeMultiply(a[2], b[2]), FeMultiply(a[1], b[1])),
                    FeInvert(FeSubtract(1, k)))>>

AffineIdentity == <<0, 1>>

\* n * a by binary double-and-add, low bit first.
RECURSIVE AffineTimesLoop(_, _, _)
AffineTimesLoop(n, a, acc) ==
    IF Evaluated(a) /\ Evaluated(acc) /\ n = 0 THEN acc
    ELSE AffineTimesLoop(n \div 2, AffineAdd(a, a),
                         IF n % 2 = 1 THEN AffineAdd(acc, a) ELSE acc)

AffineTimes(n, a) == AffineTimesLoop(n, a, AffineIdentity)

\* Sum over j of scalars[j] * points[j], the points read from heap h.
RECURSIVE AffineSum(_, _, _, _)
AffineSum(h, scalars, points, j) ==
    IF j > Len(points) THEN AffineIdentity
    ELSE AffineAdd(AffineTimes(LittleEndian(scalars[j]), Affine(h[points[j]])),
                   AffineSum(h, scalars, points, j + 1))

\* p is a valid Point (Z # 0, both curve equations) denoting the affine point a.
Denotes(p, a) ==
    /\ p.z # 0
    /\ isOnCurve(p.x, p.y, p.z, p.t)
    /\ Affine(p) = a

---------------------------------------------------------------------------
(* State *)

PointIds == {"v", "p", "q"}

\* A point of order 8, as the tests' lowOrderBytes decodes to.
LowOrder == PointRec(30617, 16658, 1, FeMultiply(30617, 16658))

ScalarPool ==
    <<ScFromInt(0), ScFromInt(1), ScFromInt(8), ScFromInt(1929),
      ScFromInt(2^(FieldBits - 3) + 4), ScFromInt(L - 1)>>

\* The sequences of n scalars handed to an operation: n consecutive entries
\* of the pool, from any start.
ScalarSeqs(n) ==
    { [i \in 1..n |-> ScalarPool[((k + i - 2) % Len(ScalarPool)) + 1]] :
        k \in 1..Len(ScalarPool) }

PointSeqs(n) == [1..n -> PointIds]

NoCall ==
    [op |-> "none", v |-> "v", points |-> <<>>, scalars |-> <<>>,
     bytes |-> <<>>, pre |-> [i \in PointIds |-> ZeroValue], ret |-> "none"]

\* The objects of a layer the specification at hand does not use.
Unused == <<>>

Call(op, v, points, scalars, bytes, ret) ==
    [op |-> op, v |-> v, points |-> points, scalars |-> scalars,
     bytes |-> bytes, pre |-> pts, ret |-> ret]

Init ==
    /\ pts \in { [i \in PointIds |->
                    CASE i = "v" -> a [] i = "p" -> b [] OTHER -> c] :
                 a \in {ZeroValue, Identity, Generator},
                 b \in {Generator, LowOrder, PointAdd(Generator, LowOrder)},
                 c \in {PointAdd(Generator, Generator)} }
    /\ scs = Unused /\ fes = Unused /\ grp = Unused
    /\ call = NoCall

AllInitialized(h, points) == \A j \in 1..Len(points) : checkInitialized(h[points[j]])

\* The entry of the two functions with the points examined before the
\* lengths are compared.
MultiScalarMultEntryPointsFirst(h, scalars, points) ==
    IF ~AllInitialized(h, points) THEN "uninitialized"
    ELSE IF Len(scalars) # Len(points) THEN "different size inputs"
    ELSE "ok"

\* The entry of MultiScalarMult and of VarTimeMultiScalarMult: the panic
\* raised, if any.  The lengths are compared first, then checkInitialized
\* reads the points.
MultiScalarMultEntry(h, scalars, points) ==
    IF Len(scalars) # Len(points) THEN "different size inputs"
    ELSE IF ~AllInitialized(h, points) THEN "uninitialized"
    ELSE "ok"

MultiScalarMultCall ==
    /\ call.op = "none"
    /\ UNCHANGED <<scs, fes, grp>>
    /\ \E v \in PointIds, ns \in 0..MaxN, np \in 0..MaxN :
         \E scalars \in ScalarSeqs(ns), points \in PointSeqs(np) :
            IF MultiScalarMultEntry(pts, scalars, points) # "ok"
            THEN /\ call' = Call("MultiScalarMult", v, points, scalars,
                                 <<MultiScalarMultEntry(pts, scalars, points)>>, "panic")
                 /\ pts' = pts
            ELSE /\ call' = Call("MultiScalarMult", v, points, scalars, <<>>, "v")
                 /\ pts' = MultiScalarMult(pts, v, scalars, points)

VarTimeMultiScalarMultCall ==
    /\ call.op = "none"
    /\ UNCHANGED <<scs, fes, grp>>
    /\ \E v \in PointIds, ns \in 0..MaxN, np \in 0..MaxN :
         \E scalars \in ScalarSeqs(ns), points \in PointSeqs(np) :
            IF MultiScalarMultEntry(pts, scalars, points) # "ok"
            THEN /\ call' = Call("VarTimeMultiScalarMult", v, points, scalars,
                                 <<MultiScalarMultEntry(pts, scalars, points)>>, "panic")
                 /\ pts' = pts
            ELSE /\ call' = Call("VarTimeMultiScalarMult", v, points, scalars, <<>>, "v")
                 /\ pts' = VarTimeMultiScalarMult(pts, v, scalars, points)

NextMulti == MultiScalarMultCall \/ VarTimeMultiScalarMultCall

SpecMulti == Init /\ [][NextMulti]_vars

---------------------------------------------------------------------------
(* MultiScalarMult and VarTimeMultiScalarMult *)

Returned(op) == call.op = op /\ call.ret = "v"

Frame == \A i \in PointIds \ {call.v} : pts[i] = call.pre[i]

\* ScalarBaseMult(scalars[1]) + ... + ScalarBaseMult(scalars[n])
RECURSIVE ScalarBaseMultSum(_, _, _)
ScalarBaseMultSum(scalars, j, acc) ==
    IF Evaluated(acc) /\ j > Len(scalars) THEN acc
    ELSE ScalarBaseMultSum(scalars, j + 1,
            PointAdd(acc, BasepointMul(call.pre, "v", scalars[j])["v"]))

AllGenerator == \A j \in 1..Len(call.points) : call.pre[call.points[j]] = Generator

\* C1: whenever MultiScalarMult returns, the receiver is a valid point
\* (Z # 0) that denotes the sum of scalars[i] * points[i], the points taken
\* as they were before the call, whatever the receiver held before.
C1_MultiScalarMultSum ==
    Returned("MultiScalarMult") =>
        Denotes(pts[call.v], AffineSum(call.pre, call.scalars, call.points, 1))

\* C4: whenever VarTimeMultiScalarMult returns, the receiver is a valid
\* point that denotes the sum of scalars[i] * points[i], the points taken as
\* they were before the call, no other Point is written, and for points all
\* equal to B the result equals the sum of the ScalarBaseMult(scalars[i]).
C4_VarTimeMultiScalarMultSum ==
    Returned("VarTimeMultiScalarMult") =>
        /\ Denotes(pts[call.v], AffineSum(call.pre, call.scalars, call.points, 1))
        /\ Frame
        /\ AllGenerator =>
              PointEqual(pts[call.v], ScalarBaseMultSum(call.scalars, 1, Identity)) = 1

\* C4 witness: three scalars, the receiver one of the points and not the
\* identity before the call, the sum not the identity.
C4_Witness ==
    /\ Returned("VarTimeMultiScalarMult")
    /\ Len(call.points) = 3
    /\ \E j \in 1..3 : call.points[j] = call.v
    /\ PointEqual(call.pre[call.v], Identity) = 0
    /\ PointEqual(pts[call.v], Identity) = 0
    /\ pts[call.v] # call.pre[call.v]

---------------------------------------------------------------------------
(* ScalarMult, ScalarBaseMult and MultByCofactor *)

\* The scalars handed to the single-point operations: small ones, ones with
\* a carry between radix-16 digits, ones with a non-zero top digit.
Scalars ==
    { ScFromInt(n) : n \in {0, 1, 2, 7, 8, 9, 15, 16, 17, 128, 255, 256, 514, 1929,
                            2^(FieldBits - 4), 2^(FieldBits - 3) + 4, L - 8, L - 1} }

ScalarMultCall ==
    /\ call.op = "none"
    /\ UNCHANGED <<scs, fes, grp>>
    /\ \E v \in PointIds, q \in PointIds, x \in Scalars :
         /\ call' = Call("ScalarMult", v, <<q>>, <<x>>, <<>>, "v")
         /\ pts' = ScalarMul(pts, v, x, q)

ScalarBaseMultCall ==
    /\ call.op = "none"
    /\ UNCHANGED <<scs, fes, grp>>
    /\ \E v \in PointIds, x \in Scalars :
         /\ call' = Call("ScalarBaseMult", v, <<>>, <<x>>, <<>>, "v")
         /\ pts' = BasepointMul(pts, v, x)

\* MultByCofactor may follow a ScalarBaseMult: call.scalars then keeps the
\* scalar its argument was produced from, if it was produced by that call.
MultByCofactorCall ==
    /\ call.op \in {"none", "ScalarBaseMult"}
    /\ UNCHANGED <<scs, fes, grp>>
    /\ \E v \in PointIds, p \in PointIds :
         LET from == IF call.op = "ScalarBaseMult" /\ call.v = p
                     THEN call.scalars ELSE <<>>
         IN IF ~checkInitialized(pts[p])
            THEN /\ call' = Call("MultByCofactor", v, <<p>>, from, <<>>, "panic")
                 /\ pts' = pts
            ELSE /\ call' = Call("MultByCofactor", v, <<p>>, from, <<>>, "v")
                 /\ pts' = MultByCofactor(pts, v, p)

NextMul == ScalarMultCall \/ ScalarBaseMultCall \/ MultByCofactorCall

SpecMul == Init /\ [][NextMul]_vars

Valid(p) == p.z # 0 /\ isOnCurve(p.x, p.y, p.z, p.t)

\* The heap before the call with the basepoint stored in q.
WithGenerator == [call.pre EXCEPT !["q"] = Generator]

\* C2: ScalarMult(x, Q) on a valid Q leaves in the receiver a valid point
\* denoting x*Q, Q taken as it was before the call, also when the receiver
\* is Q itself; it writes no other Point; 0*Q is the identity and 1*Q is Q.
C2_ScalarMult ==
    (Returned("ScalarMult") /\ Valid(call.pre[call.points[1]])) =>
        LET x == LittleEndian(call.scalars[1])
            Q == call.pre[call.points[1]]
        IN /\ Denotes(pts[call.v], AffineTimes(x, Affine(Q)))
           /\ Frame
           /\ x = 0 => PointEqual(pts[call.v], Identity) = 1
           /\ x = 1 => PointEqual(pts[call.v], Q) = 1

\* C2 witness: the receiver is Q itself, Q is not the identity, the scalar
\* is neither 0 nor 1 and has a non-zero top digit.
C2_Witness ==
    /\ Returned("ScalarMult")
    /\ call.points[1] = call.v
    /\ Valid(call.pre[call.v])
    /\ PointEqual(call.pre[call.v], Identity) = 0
    /\ signedRadix16(call.scalars[1])[NumDigits] # 0
    /\ PointEqual(pts[call.v], Identity) = 0

\* C3: ScalarBaseMult(s) leaves in the receiver a valid point equal to the
\* one ScalarMult(s, B) computes, and writes no other Point.
C3_ScalarBaseMultIsScalarMult ==
    Returned("ScalarBaseMult") =>
        /\ Valid(pts[call.v])
        /\ PointEqual(pts[call.v],
                      ScalarMul(WithGenerator, "v", call.scalars[1], "q")["v"]) = 1
        /\ Frame

\* C3 witness: a scalar with non-zero odd-indexed and even-indexed digits,
\* in both basepoint tables.
C3_Witness ==
    /\ Returned("ScalarBaseMult")
    /\ \A i \in 1..NumDigits : signedRadix16(call.scalars[1])[i] # 0
    /\ PointEqual(pts[call.v], Identity) = 0

\* k * LowOrder for k = 0..7: the points of order dividing 8.
RECURSIVE LowOrderTimes(_)
LowOrderTimes(k) == IF k = 0 THEN Identity ELSE PointAdd(LowOrderTimes(k - 1), LowOrder)

\* p + ... + p, n terms.
RECURSIVE AddedTimes(_, _)
AddedTimes(p, n) == IF n = 1 THEN p ELSE PointAdd(AddedTimes(p, n - 1), p)

\* C10: MultByCofactor(p) on a valid p leaves in the receiver a valid point
\* denoting 8*p, also when the receiver is p; it writes no other Point; the
\* result equals p added eight times, equals MultByCofactor(p + T) for every
\* T of order dividing 8, is the identity when 8*p is, and equals
\* ScalarBaseMult(8*s) when p was produced by ScalarBaseMult(s).
C10_MultByCofactor ==
    (Returned("MultByCofactor") /\ Valid(call.pre[call.points[1]])) =>
        LET p == call.pre[call.points[1]]
            r == pts[call.v]
        IN /\ Denotes(r, AffineTimes(8, Affine(p)))
           /\ Frame
           /\ PointEqual(r, AddedTimes(p, 8)) = 1
           /\ \A k \in 0..7 :
                 PointEqual(r, MultByCofactor(
                     [call.pre EXCEPT !["q"] = PointAdd(p, LowOrderTimes(k))],
                     "v", "q")["v"]) = 1
           /\ (\E k \in 0..7 : PointEqual(p, LowOrderTimes(k)) = 1) =>
                 PointEqual(r, Identity) = 1
           /\ call.scalars # <<>> =>
                 PointEqual(r, BasepointMul(call.pre, "v",
                     ScMultiply(ScFromInt(8), call.scalars[1]))["v"]) = 1

\* C10 witness: the receiver is p itself, p = ScalarBaseMult(s) with 8*s
\* wrapping around l, and the result is not the identity.
C10_Witness ==
    /\ Returned("MultByCofactor")
    /\ call.points[1] = call.v
    /\ call.scalars # <<>>
    /\ 8 * LittleEndian(call.scalars[1]) > L
    /\ PointEqual(pts[call.v], Identity) = 0

\* C10 witness for the low-order case: p has order 8 and the result is the
\* identity.
C10_WitnessLowOrder ==
    /\ Returned("MultByCofactor")
    /\ call.pre[call.points[1]] = LowOrder
    /\ PointEqual(pts[call.v], Identity) = 1

---------------------------------------------------------------------------
(* Point.SetBytes and Point.SetExtendedCoordinates *)

\* Element.SetBytes: the top bit is ignored, values p .. 2^FieldBits - 1 are
\* accepted and denote their residue.
FeSetBytes(x) == (LittleEndian(x) % 2^FieldBits) % P

\* Element.Bytes: the canonical encoding.
FeBytes(v) == ToBytes(v % P, EncLen)

\* Point.SetBytes: the heap it leaves and what it returns.
PointSetBytes(h, v, x) ==
    IF Len(x) # EncLen THEN [heap |-> h, ret |-> "nil"]
    ELSE LET y   == FeSetBytes(x)
             y2  == FeSquare(y)
             u   == FeSubtract(y2, 1)
             vv  == FeAdd(FeMultiply(y2, D), 1)
             sq  == FeSqrtRatio(u, vv)
             xx  == FeSelect(FeNegate(sq[1]), sq[1], x[EncLen] \div 128)
         IN IF sq[2] = 0 THEN [heap |-> h, ret |-> "nil"]
            ELSE [heap |-> [h EXCEPT ![v] = PointRec(xx, y, 1, FeMultiply(xx, y))],
                  ret |-> "v"]

\* Point.Bytes: y with the sign of x in the top bit.
PointBytes(p) ==
    LET zInv == FeInvert(p.z)
        x    == FeMultiply(p.x, zInv)
        out  == FeBytes(FeMultiply(p.y, zInv))
    IN [out EXCEPT ![EncLen] = @ + 128 * FeIsNegative(x)]

PointSetExtendedCoordinates(h, v, X, Y, Z, T) ==
    IF ~isOnCurve(X, Y, Z, T) THEN [heap |-> h, ret |-> "nil"]
    ELSE [heap |-> [h EXCEPT ![v] = PointRec(X, Y, Z, T)], ret |-> "v"]

\* The y coordinates offered to SetBytes: small ones, the largest canonical
\* ones and every non-canonical one, each with either sign bit.
Encodings ==
    { ToBytes(y + sign * 2^FieldBits, EncLen) :
        y \in (0..48) \cup {GeneratorY, LowOrder.y} \cup ((P - 24)..(2^FieldBits - 1)),
        sign \in {0, 1} }

\* Byte strings of another length.
WrongLength == { <<>>, <<1>>, <<1, 0, 0>> }

SetBytesCall ==
    /\ call.op = "none"
    /\ UNCHANGED <<scs, fes, grp>>
    /\ \E v \in PointIds, x \in Encodings \cup WrongLength :
         LET out == PointSetBytes(pts, v, x)
         IN /\ call' = Call("SetBytes", v, <<>>, <<>>, x, out.ret)
            /\ pts' = out.heap

\* The tuples offered to SetExtendedCoordinates: the coordinates of curve
\* points scaled by k, each coordinate moved by 0 or 1, T possibly negated,
\* Z possibly zero; the all-zero tuple; an off-curve tuple with XY = ZT.
Scaled(p, k) == PointRec(FeMultiply(p.x, k), FeMultiply(p.y, k),
                         FeMultiply(p.z, k), FeMultiply(p.t, k))

Coordinates ==
    { <<FeAdd(p.x, dx), FeAdd(p.y, dy), FeMultiply(FeAdd(p.z, dz), kz),
        FeMultiply(FeAdd(p.t, dt), st)>> :
        p \in { Scaled(q, k) : q \in {Identity, Generator, LowOrder}, k \in {1, 3} },
        dx \in {0, 1}, dy \in {0, 1}, dz \in {0, 1}, dt \in {0, 1},
        kz \in {0, 1}, st \in {1, P - 1} }
    \cup { <<0, 0, 0, 0>>, <<2, 3, 1, 6>> }

SetExtendedCoordinatesCall ==
    /\ call.op = "none"
    /\ UNCHANGED <<scs, fes, grp>>
    /\ \E v \in PointIds, c \in Coordinates :
         LET out == PointSetExtendedCoordinates(pts, v, c[1], c[2], c[3], c[4])
         IN /\ call' = Call("SetExtendedCoordinates", v, <<>>, <<>>, c, out.ret)
            /\ pts' = out.heap

NextDecode == SetBytesCall \/ SetExtendedCoordinatesCall

SpecDecode == Init /\ [][NextDecode]_vars

\* The squares of the field.
Squares == { (x * x) % P : x \in 0..((P - 1) \div 2) }

\* The y the bytes encode has an x with x^2 = (y^2 - 1) / (d*y^2 + 1).
HasX(x) ==
    LET y == LittleEndian(x) % 2^FieldBits
        u == (y * y - 1) % P
        w == (D * ((y * y) % P) + 1) % P
    IN \E r \in Squares : (r * w) % P = u

\* C5: SetBytes on bytes of the encoding length whose y has no x on the
\* curve returns nil (with an error) and leaves every Point, the receiver
\* included, exactly as it was before the call.
C5_SetBytesInvalid ==
    (call.op = "SetBytes" /\ Len(call.bytes) = EncLen /\ ~HasX(call.bytes)) =>
        call.ret = "nil" /\ pts = call.pre

\* C5 witness: an invalid encoding was offered to a receiver holding the
\* basepoint, and was rejected.
C5_Witness ==
    /\ call.op = "SetBytes"
    /\ Len(call.bytes) = EncLen
    /\ ~HasX(call.bytes)
    /\ call.pre[call.v] = Generator
    /\ call.ret = "nil"

\* The two curve equations, over the integers.
Equation1(X, Y, Z, T) ==
    (Y * Y + (P - 1) * ((X * X) % P)) % P = (((Z * Z) % P) + D * ((T * T) % P)) % P

Equation2(X, Y, Z, T) == (X * Y) % P = (Z * T) % P

C6_WitnessAccepted ==
    /\ call.op = "SetExtendedCoordinates"
    /\ call.ret = "v"
    /\ call.bytes[3] \notin {0, 1}
    /\ pts[call.v] # call.pre[call.v]

---------------------------------------------------------------------------
(* Scalar.SetCanonicalBytes *)

ScalarIds == {"s", "x", "y"}

\* Scalar.SetCanonicalBytes: the heap it leaves and what it returns.
ScalarSetCanonicalBytes(h, s, x) ==
    IF Len(x) # EncLen THEN [heap |-> h, ret |-> "nil"]
    ELSE IF ~isReduced(x) THEN [heap |-> h, ret |-> "nil"]
    ELSE [heap |-> [h EXCEPT ![s] = x], ret |-> "v"]

\* Scalar.Bytes: a copy of the bytes held.
ScalarBytes(s) == [i \in 1..EncLen |-> s[i]]

ScalarValues == { ScFromInt(n) : n \in {0, 1, 1929, L - 1} }

ScalarHeaps == [ScalarIds -> ScalarValues]

InitScalars ==
    /\ scs \in ScalarHeaps
    /\ pts = Unused /\ fes = Unused /\ grp = Unused
    /\ call = NoCall

\* The byte strings offered: values around 0, around l and around the
\* largest ones, and strings of another length.
CanonicalInputs ==
    { <<lo, hi>> : lo \in {0, 1, scMinusOne[1] - 1, scMinusOne[1], scMinusOne[1] + 1,
                           scMinusOne[1] + 2, 254, 255},
                  hi \in {0, 1, scMinusOne[EncLen] - 1, scMinusOne[EncLen],
                          scMinusOne[EncLen] + 1, 31, 32, 127, 128, 255} }
    \cup { <<>>, <<1>>, <<1, 0, 0>> }

SetCanonicalBytesCall ==
    /\ call.op = "none"
    /\ UNCHANGED <<pts, fes, grp>>
    /\ \E s \in ScalarIds, x \in CanonicalInputs :
         LET out == ScalarSetCanonicalBytes(scs, s, x)
         IN /\ call' = [op |-> "SetCanonicalBytes", v |-> s, points |-> <<>>,
                        scalars |-> <<>>, bytes |-> x, pre |-> scs, ret |-> out.ret]
            /\ scs' = out.heap

NextScalar == SetCanonicalBytesCall

SpecScalar == InitScalars /\ [][NextScalar]_vars

\* C7: SetCanonicalBytes(b) returns the receiver exactly when b has the
\* encoding length and its little-endian value is below l; the receiver then
\* holds that value, Bytes() returns b and no other Scalar is written.
\* Otherwise it returns nil (with an error) and every Scalar, the receiver
\* included, is as it was before the call.
C7_SetCanonicalBytes ==
    call.op = "SetCanonicalBytes" =>
        IF Len(call.bytes) = EncLen /\ LittleEndian(call.bytes) < L
        THEN /\ call.ret = "v"
             /\ LittleEndian(scs[call.v]) = LittleEndian(call.bytes)
             /\ ScalarBytes(scs[call.v]) = call.bytes
             /\ \A i \in ScalarIds \ {call.v} : scs[i] = call.pre[i]
        ELSE call.ret = "nil" /\ scs = call.pre

\* C7 witness: the bytes of l itself were offered to a receiver holding 1929
\* and were rejected.
C7_Witness ==
    /\ call.op = "SetCanonicalBytes"
    /\ Len(call.bytes) = EncLen
    /\ LittleEndian(call.bytes) = L
    /\ LittleEndian(call.pre[call.v]) = 1929
    /\ call.ret = "nil"

\* C7 witness for acceptance: the bytes of l - 1 replaced another value.
C7_WitnessAccepted ==
    /\ call.op = "SetCanonicalBytes"
    /\ call.bytes = scMinusOne
    /\ call.pre[call.v] # scMinusOne
    /\ call.ret = "v"

---------------------------------------------------------------------------
(* field.Element objects as limbs, and the order in which the operations   *)
(* read and write them.  A heap maps object ids to limb tuples; "zero" is  *)
(* the package-level element the code never writes.                        *)

LimbBits == FieldBits \div 3

maskLowBits == 2^LimbBits - 1

Limbs(n) == <<n % 2^LimbBits, (n \div 2^LimbBits) % 2^LimbBits, n \div 2^(2 * LimbBits)>>

LimbsValue(e) == e[1] + e[2] * 2^LimbBits + e[3] * 2^(2 * LimbBits)

\* l_(i+1) += l_i >> LimbBits; l_i &= mask; then l_0 += 19 * (l_top >> LimbBits).
carryLimbs(e) ==
    LET l1 == e[2] + (e[1] \div 2^LimbBits)
        l2 == e[3] + (l1 \div 2^LimbBits)
    IN <<(e[1] % 2^LimbBits) + 19 * (l2 \div 2^LimbBits), l1 % 2^LimbBits, l2 % 2^LimbBits>>

carryPropagateGeneric(h, v) == [h EXCEPT ![v] = carryLimbs(h[v])]

ElementAdd(h, v, a, b) ==
    LET h1 == [h  EXCEPT ![v][1] = h[a][1] + h[b][1]]
        h2 == [h1 EXCEPT ![v][2] = h1[a][2] + h1[b][2]]
        h3 == [h2 EXCEPT ![v][3] = h2[a][3] + h2[b][3]]
    IN carryPropagateGeneric(h3, v)

\* 2 * p is added limb by limb before b is subtracted.
ElementSubtract(h, v, a, b) ==
    LET h1 == [h  EXCEPT ![v][1] = (h[a][1] + 2 * (2^LimbBits - 19)) - h[b][1]]
        h2 == [h1 EXCEPT ![v][2] = (h1[a][2] + 2 * maskLowBits) - h1[b][2]]
        h3 == [h2 EXCEPT ![v][3] = (h2[a][3] + 2 * maskLowBits) - h2[b][3]]
    IN carryPropagateGeneric(h3, v)

ElementNegate(h, v, a) == ElementSubtract(h, v, "zero", a)

ElementSet(h, v, a) == [h EXCEPT ![v] = h[a]]

ElementSelect(h, v, a, b, cond) ==
    LET h1 == [h  EXCEPT ![v][1] = IF cond = 1 THEN h[a][1] ELSE h[b][1]]
        h2 == [h1 EXCEPT ![v][2] = IF cond = 1 THEN h1[a][2] ELSE h1[b][2]]
    IN [h2 EXCEPT ![v][3] = IF cond = 1 THEN h2[a][3] ELSE h2[b][3]]

\* tmp := new(Element).Negate(u); v.Select(tmp, u, cond)
ElementCondNegate(h, v, u, cond) ==
    LET h1 == ElementNegate(("tmp" :> Limbs(0)) @@ h, "tmp", u)
        h2 == ElementSelect(h1, v, "tmp", u, cond)
    IN [i \in DOMAIN h |-> h2[i]]

\* The low bit of the canonical encoding.
ElementIsNegative(h, v) == (LimbsValue(h[v]) % P) % 2

\* Absolute with the negation written to the receiver before u is tested.
ElementAbsoluteInPlace(h, v, u) ==
    LET h1 == ElementNegate(h, v, u)
    IN ElementSelect(h1, v, v, u, ElementIsNegative(h1, u))

ElementAbsolute(h, v, u) == ElementCondNegate(h, v, u, ElementIsNegative(h, u))

\* The product of the two values modulo p, in limbs that are in bounds; the
\* operands are read whole before the result exists.
feMulGeneric(x, y) == Limbs(FeMultiply(LimbsValue(x) % P, LimbsValue(y) % P))

feSquareGeneric(x) == feMulGeneric(x, x)

ElementMultiply(h, v, x, y) == [h EXCEPT ![v] = feMulGeneric(h[x], h[y])]

ElementSquare(h, v, x) == [h EXCEPT ![v] = feSquareGeneric(h[x])]

\* t.Square(&t), k times
RECURSIVE SquareTimes(_, _)
SquareTimes(t, k) ==
    IF Evaluated(t) /\ k = 0 THEN t ELSE SquareTimes(feSquareGeneric(t), k - 1)

\* The chain for z^(p - 2) on local elements; v is written by the last
\* multiplication only.
ElementInvert(h, v, z) ==
    LET z2      == feSquareGeneric(h[z])
        z9      == feMulGeneric(SquareTimes(z2, 2), h[z])
        z11     == feMulGeneric(z9, z2)
        z2_5_0  == feMulGeneric(feSquareGeneric(z11), z9)
        z2_10_0 == feMulGeneric(SquareTimes(z2_5_0, 5), z2_5_0)
        t       == SquareTimes(z2_10_0, 5)
    IN [h EXCEPT ![v] = feMulGeneric(t, z11)]

---------------------------------------------------------------------------
(* Scalar objects: the operations as reads and writes of whole Scalars *)

ScalarAdd(h, s, x, y) == [h EXCEPT ![s] = ScAdd(h[x], h[y])]

ScalarSubtract(h, s, x, y) == [h EXCEPT ![s] = ScSubtract(h[x], h[y])]

ScalarNegate(h, s, x) == [h EXCEPT ![s] = ScNegate(h[x])]

ScalarMultiply(h, s, x, y) == [h EXCEPT ![s] = ScMultiply(h[x], h[y])]

\* for i := 0; i < k; i++ { s.Multiply(s, s) }
RECURSIVE pow2k(_, _, _)
pow2k(h, s, k) ==
    IF Evaluated(h) /\ k = 0 THEN h ELSE pow2k(ScalarMultiply(h, s, s, s), s, k - 1)

\* table[i] = t^(2i + 1), at index i + 1
RECURSIVE InvertTable(_, _)
InvertTable(table, tt) ==
    IF Evaluated(table) /\ Len(table) = 8 THEN table
    ELSE InvertTable(Append(table, ScMultiply(table[Len(table)], tt)), tt)

\* The steps after *s = table[1/2]: <<k, n>> is s.pow2k(k); s.Multiply(s, &table[n/2]).
InvertSteps ==
    << <<127 + 1, 1>>, <<4 + 1, 9>>, <<3 + 1, 11>>, <<3 + 1, 13>>, <<3 + 1, 15>>,
       <<4 + 1, 7>>, <<4 + 1, 15>>, <<3 + 1, 5>>, <<3 + 1, 1>>, <<4 + 1, 15>>,
       <<4 + 1, 15>>, <<4 + 1, 7>>, <<3 + 1, 3>>, <<4 + 1, 11>>, <<5 + 1, 11>>,
       <<9 + 1, 9>>, <<3 + 1, 3>>, <<4 + 1, 3>>, <<4 + 1, 3>>, <<4 + 1, 9>>,
       <<3 + 1, 7>>, <<3 + 1, 3>>, <<3 + 1, 13>>, <<3 + 1, 7>>, <<4 + 1, 9>>,
       <<3 + 1, 15>>, <<4 + 1, 11>> >>

RECURSIVE InvertRun(_, _, _, _)
InvertRun(h, s, table, i) ==
    IF Evaluated(h) /\ i > Len(InvertSteps) THEN h
    ELSE LET h1 == pow2k(h, s, InvertSteps[i][1])
             h2 == [h1 EXCEPT ![s] = ScMultiply(h1[s], table[(InvertSteps[i][2] \div 2) + 1])]
         IN InvertRun(h2, s, table, i + 1)

\* The table is copied from t before s is written.  The chain is the one
\* for the full-size group order; the multiplications are modulo L.
ScalarInvert(h, s, t) ==
    LET tt    == ScMultiply(h[t], h[t])
        table == InvertTable(<<h[t]>>, tt)
    IN InvertRun([h EXCEPT ![s] = table[1]], s, table, 1)

---------------------------------------------------------------------------
(* Calls of the field and scalar operations, with any aliasing of receiver *)
(* and arguments                                                           *)

ElementIds == {"v", "x", "y"}

ElementValues == { Limbs(0), Limbs(1), Limbs(1930), Limbs(P - 2), <<maskLowBits + 4, maskLowBits, maskLowBits>> }

ElementHeaps ==
    { [i \in ElementIds \cup {"zero"} |-> IF i = "zero" THEN Limbs(0) ELSE f[i]] :
        f \in [ElementIds -> ElementValues] }

DefaultElements == [i \in ElementIds \cup {"zero"} |-> Limbs(0)]

DefaultScalars == [i \in ScalarIds |-> ScFromInt(0)]

InitAlias ==
    /\ \/ fes \in ElementHeaps /\ scs = DefaultScalars
       \/ fes = DefaultElements /\ scs \in ScalarHeaps
    /\ pts = Unused /\ grp = Unused
    /\ call = NoCall

\* The heap a field operation leaves; cond is used by CondNegate and Select.
ApplyElementOp(op, h, v, a, b, cond) ==
    CASE op = "Absolute"   -> ElementAbsolute(h, v, a)
      [] op = "Invert"     -> ElementInvert(h, v, a)
      [] op = "Negate"     -> ElementNegate(h, v, a)
      [] op = "Set"        -> ElementSet(h, v, a)
      [] op = "Square"     -> ElementSquare(h, v, a)
      [] op = "CondNegate" -> ElementCondNegate(h, v, a, cond)
      [] op = "Multiply"   -> ElementMultiply(h, v, a, b)
      [] op = "Add"        -> ElementAdd(h, v, a, b)
      [] op = "Subtract"   -> ElementSubtract(h, v, a, b)
      [] op = "Select"     -> ElementSelect(h, v, a, b, cond)

ApplyScalarOp(op, h, s, x, y) ==
    CASE op = "Invert"   -> ScalarInvert(h, s, x)
      [] op = "Negate"   -> ScalarNegate(h, s, x)
      [] op = "Multiply" -> ScalarMultiply(h, s, x, y)
      [] op = "Add"      -> ScalarAdd(h, s, x, y)
      [] op = "Subtract" -> ScalarSubtract(h, s, x, y)

OneArg == {"Absolute", "Invert", "Negate", "Set", "Square", "CondNegate"}

\* The operation, its receiver and its arguments (a one-argument operation
\* records its argument twice), the condition if it takes one.
AliasCall(layer, op, v, a, b, cond, pre) ==
    [op |-> op, v |-> v, points |-> <<a, b>>, scalars |-> <<layer>>,
     bytes |-> <<cond>>, pre |-> pre, ret |-> v]

ElementOpCall ==
    /\ call.op = "none"
    /\ UNCHANGED <<pts, scs, grp>>
    /\ \E op \in OneArg \cup {"Multiply", "Add", "Subtract", "Select"},
          v \in ElementIds, a \in ElementIds, b \in ElementIds, cond \in {0, 1} :
         /\ op \in OneArg => b = a
         /\ op \notin {"CondNegate", "Select"} => cond = 0
         /\ call' = AliasCall("field", op, v, a, b, cond, fes)
         /\ fes' = ApplyElementOp(op, fes, v, a, b, cond)

ScalarOpCall ==
    /\ call.op = "none"
    /\ UNCHANGED <<pts, fes, grp>>
    /\ \E op \in {"Invert", "Negate", "Multiply", "Add", "Subtract"},
          s \in ScalarIds, x \in ScalarIds, y \in ScalarIds :
         /\ op \in OneArg => y = x
         /\ call' = AliasCall("scalar", op, s, x, y, 0, scs)
         /\ scs' = ApplyScalarOp(op, scs, s, x, y)

NextAlias == ElementOpCall \/ ScalarOpCall

SpecAlias == InitAlias /\ [][NextAlias]_vars

\* The same field operation with a fresh receiver and the arguments in two
\* other objects: the value the receiver gets.
ElementReference ==
    LET a == call.points[1]
        b == call.points[2]
        h == [i \in ElementIds \cup {"zero"} |->
                CASE i = "x" -> call.pre[a] [] i = "y" -> call.pre[b]
                  [] OTHER -> Limbs(0)]
    IN ApplyElementOp(call.op, h, "v", "x", IF a = b THEN "x" ELSE "y", call.bytes[1])["v"]

ScalarReference ==
    LET x == call.points[1]
        y == call.points[2]
        h == [i \in ScalarIds |->
                CASE i = "x" -> call.pre[x] [] i = "y" -> call.pre[y]
                  [] OTHER -> ScFromInt(0)]
    IN ApplyScalarOp(call.op, h, "s", "x", IF x = y THEN "x" ELSE "y")["s"]

\* C8: every field operation and every scalar operation, called with any
\* aliasing of its receiver and arguments, returns its receiver, leaves in it
\* the value the operation gives with a fresh receiver and unaliased
\* arguments, and leaves every other object as it was.
C8_Aliasing ==
    /\ (call.op # "none" /\ call.scalars = <<"field">>) =>
          /\ call.ret = call.v
          /\ fes[call.v] = ElementReference
          /\ \A i \in DOMAIN fes \ {call.v} : fes[i] = call.pre[i]
    /\ (call.op # "none" /\ call.scalars = <<"scalar">>) =>
          /\ call.ret = call.v
          /\ scs[call.v] = ScalarReference
          /\ \A i \in ScalarIds \ {call.v} : scs[i] = call.pre[i]

\* C8 witness: Absolute with the receiver as its argument, on an element
\* that is negative, so that the receiver changes.
C8_Witness ==
    /\ call.op = "Absolute" /\ call.scalars = <<"field">>
    /\ call.points[1] = call.v
    /\ (LimbsValue(call.pre[call.v]) % P) % 2 = 1
    /\ fes[call.v] # call.pre[call.v]

\* C8 witness for scalars: Invert with the receiver as its argument, on a
\* scalar other than 0 and 1.
C8_WitnessScalar ==
    /\ call.op = "Invert" /\ call.scalars = <<"scalar">>
    /\ call.points[1] = call.v
    /\ LittleEndian(call.pre[call.v]) > 1
    /\ scs[call.v] # call.pre[call.v]

\* C8 witness for two arguments: Subtract with receiver and both arguments
\* the same object, holding a non-zero element.
C8_WitnessAllSame ==
    /\ call.op = "Subtract" /\ call.scalars = <<"field">>
    /\ call.points = <<call.v, call.v>>
    /\ LimbsValue(call.pre[call.v]) % P # 0
    /\ LimbsValue(fes[call.v]) % P = 0

---------------------------------------------------------------------------
(* The group of the full-size curve, cyclic of order 8 * l, as multiples   *)
(* of a generator G with 8 * G = B.  A multiple is a natural number below  *)
(* 8 * l held in words, least significant first.                           *)

\* The word size is a choice of representation; NumWords words hold any sum
\* of two multiples.
WordBits == 28

Word == 2^WordBits

NumWords == (256 \div WordBits) + 1

BigFromInt(n) == <<n % Word, n \div Word>> \o [i \in 1..(NumWords - 2) |-> 0]

RECURSIVE BigAddLoop(_, _, _, _, _)
BigAddLoop(a, b, i, carry, acc) ==
    IF Evaluated(acc) /\ i > NumWords THEN acc
    ELSE LET s == a[i] + b[i] + carry
         IN BigAddLoop(a, b, i + 1, s \div Word, Append(acc, s % Word))

BigAdd(a, b) == BigAddLoop(a, b, 1, 0, <<>>)

RECURSIVE BigSubLoop(_, _, _, _, _)
BigSubLoop(a, b, i, borrow, acc) ==
    IF Evaluated(acc) /\ i > NumWords THEN acc
    ELSE LET s == (a[i] - b[i]) - borrow
         IN BigSubLoop(a, b, i + 1, IF s < 0 THEN 1 ELSE 0, Append(acc, s % Word))

BigSub(a, b) == BigSubLoop(a, b, 1, 0, <<>>)

RECURSIVE BigLessLoop(_, _, _)
BigLessLoop(a, b, i) ==
    IF i = 0 THEN FALSE
    ELSE IF a[i] # b[i] THEN a[i] < b[i]
    ELSE BigLessLoop(a, b, i - 1)

BigLess(a, b) == BigLessLoop(a, b, NumWords)

BigDouble(a) == BigAdd(a, a)

RECURSIVE BigFromDecimal(_, _, _)
BigFromDecimal(digits, i, acc) ==
    IF Evaluated(acc) /\ i > Len(digits) THEN acc
    ELSE LET a2 == BigDouble(acc)
             a8 == BigDouble(BigDouble(a2))
         IN BigFromDecimal(digits, i + 1, BigAdd(BigAdd(a8, a2), BigFromInt(digits[i])))

BigPow2(k) == [i \in 1..NumWords |-> IF i = (k \div WordBits) + 1 THEN 2^(k % WordBits) ELSE 0]

\* l = 2^252 + 27742317777372353535851937790883648493
PrimeOrder ==
    BigAdd(BigPow2(252),
           BigFromDecimal(<<2,7,7,4,2,3,1,7,7,7,7,3,7,2,3,5,3,5,3,5,8,5,1,9,3,7,7,9,0,8,8,3,6,4,8,4,9,3>>,
                          1, BigFromInt(0)))

GroupOrder == BigDouble(BigDouble(BigDouble(PrimeOrder)))

GroupIdentity == BigFromInt(0)

\* Point.Add as the group operation.
GroupAdd(a, b) ==
    LET s == BigAdd(a, b)
    IN IF BigLess(s, GroupOrder) THEN s ELSE BigSub(s, GroupOrder)

BigBit(n, i) == (n[(i \div WordBits) + 1] \div 2^(i % WordBits)) % 2

\* n * a by doubling and adding over bits hi down to lo of n, the range
\* taken in two halves.
RECURSIVE GroupTimesLoop(_, _, _, _, _)
GroupTimesLoop(n, a, hi, lo, acc) ==
    IF Evaluated(acc) /\ hi < lo THEN acc
    ELSE IF hi = lo
    THEN LET d == GroupAdd(acc, acc)
         IN IF BigBit(n, hi) = 1 THEN GroupAdd(d, a) ELSE d
    ELSE LET mid == (hi + lo + 1) \div 2
         IN GroupTimesLoop(n, a, mid - 1, lo, GroupTimesLoop(n, a, hi, mid, acc))

GroupTimes(n, a) == GroupTimesLoop(n, a, WordBits * NumWords - 1, 0, GroupIdentity)

GroupBasepoint == BigFromInt(8)

\* ScalarBaseMult: s * B
GroupScalarBaseMult(h, v, s) == [h EXCEPT ![v] = GroupTimes(s, GroupBasepoint)]

\* A temporary point that has not been written.
NewPoint == <<>>

TempNames == {"t0", "t1", "t2", "t3", "t4", "t5", "t6", "t7", "t8", "t9", "tA", "tB", "tC"}

\* <<r, a, b, n>> is r.Add(a, b), n times over; "p" is the argument.
MultByPrimeOrderSteps ==
    << <<"tA", "p", "p", 1>>,   <<"t4", "p", "tA", 1>>,  <<"t2", "p", "t4", 1>>,
       <<"p", "tA", "t2", 1>>,  <<"t1", "tA", "p", 1>>,  <<"t5", "t4", "t1", 1>>,
       <<"t3", "t1", "t1", 1>>, <<"t0", "t3", "t3", 1>>, <<"t8", "p", "t0", 1>>,
       <<"t0", "t0", "t0", 1>>, <<"t7", "t3", "t0", 1>>, <<"tB", "t4", "t7", 1>>,
       <<"t3", "t3", "tB", 1>>, <<"t9", "t2", "t3", 1>>, <<"t6", "t2", "t9", 1>>,
       <<"t4", "t0", "tB", 1>>, <<"t2", "t2", "t4", 1>>, <<"t8", "t8", "t2", 1>>,
       <<"t0", "t0", "t4", 1>>, <<"t7", "t7", "t2", 1>>, <<"p", "p", "t7", 1>>,
       <<"t1", "t1", "p", 1>>,  <<"tC", "t5", "t1", 1>>,
       <<"tC", "tC", "tC", 126>>, <<"tB", "tB", "tC", 1>>,
       <<"tB", "tB", "tB", 9>>,   <<"tA", "tA", "tB", 1>>, <<"tA", "t1", "tA", 1>>,
       <<"tA", "tA", "tA", 7>>,   <<"t9", "t9", "tA", 1>>,
       <<"t9", "t9", "t9", 9>>,   <<"t9", "t1", "t9", 1>>,
       <<"t9", "t9", "t9", 11>>,  <<"t8", "t8", "t9", 1>>,
       <<"t8", "t8", "t8", 8>>,   <<"t7", "t7", "t8", 1>>,
       <<"t7", "t7", "t7", 9>>,   <<"t6", "t6", "t7", 1>>,
       <<"t6", "t6", "t6", 6>>,   <<"t5", "t5", "t6", 1>>,
       <<"t5", "t5", "t5", 14>>,  <<"t4", "t4", "t5", 1>>,
       <<"t4", "t4", "t4", 10>>,  <<"t3", "t3", "t4", 1>>,
       <<"t3", "t3", "t3", 9>>,   <<"t2", "t2", "t3", 1>>,
       <<"t2", "t2", "t2", 10>>,  <<"t1", "t1", "t2", 1>>,
       <<"t1", "t1", "t1", 8>>,   <<"t0", "t0", "t1", 1>>,
       <<"t0", "t0", "t0", 8>> >>

\* n repetitions of a step, taken as two runs of about n / 2.
RECURSIVE AddTimes(_, _, _)
AddTimes(env, step, n) ==
    IF Evaluated(env) /\ n = 0 THEN env
    ELSE IF n = 1 THEN [env EXCEPT ![step[1]] = GroupAdd(env[step[2]], env[step[3]])]
    ELSE AddTimes(AddTimes(env, step, n \div 2), step, n - (n \div 2))

RECURSIVE RunSteps(_, _)
RunSteps(env, i) ==
    IF Evaluated(env) /\ i > Len(MultByPrimeOrderSteps) THEN env
    ELSE RunSteps(AddTimes(env, MultByPrimeOrderSteps[i], MultByPrimeOrderSteps[i][4]), i + 1)

\* The chain with its last addition reading the argument as it was at entry.
MultByPrimeOrderEntryArgument(h, v, p) ==
    LET env == RunSteps([n \in TempNames \cup {"p"} |-> IF n = "p" THEN h[p] ELSE NewPoint], 1)
    IN [[h EXCEPT ![p] = env["p"]] EXCEPT ![v] = GroupAdd(h[p], env["t0"])]

\* The chain writes the argument object, then return v.Add(p, t0).
MultByPrimeOrder(h, v, p) ==
    LET env == RunSteps([n \in TempNames \cup {"p"} |-> IF n = "p" THEN h[p] ELSE NewPoint], 1)
        h1  == [h EXCEPT ![p] = env["p"]]
    IN [h1 EXCEPT ![v] = GroupAdd(h1[p], env["t0"])]

---------------------------------------------------------------------------
(* Calls of MultByPrimeOrder, on its own or on the result of a ScalarBaseMult *)

GroupIds == {"v", "p"}

\* The identity, G, B, a point of order 8, B plus a point of order 8, and
\* (l - 1) * B.
GroupValues ==
    { GroupIdentity, BigFromInt(1), GroupBasepoint, PrimeOrder,
      GroupAdd(PrimeOrder, GroupBasepoint), BigSub(GroupOrder, GroupBasepoint) }

BaseScalars == { BigFromInt(0), BigFromInt(5), BigSub(PrimeOrder, BigFromInt(1)) }

InitOrder ==
    /\ grp \in [GroupIds -> GroupValues]
    /\ pts = Unused /\ scs = Unused /\ fes = Unused
    /\ call = NoCall

GroupScalarBaseMultCall ==
    /\ call.op = "none"
    /\ UNCHANGED <<pts, scs, fes>>
    /\ \E v \in GroupIds, s \in BaseScalars :
         /\ call' = [op |-> "ScalarBaseMult", v |-> v, points |-> <<>>, scalars |-> <<s>>,
                     bytes |-> <<>>, pre |-> grp, ret |-> v]
         /\ grp' = GroupScalarBaseMult(grp, v, s)

\* call.scalars keeps the scalar the argument was produced from, if it was
\* produced by a preceding ScalarBaseMult.
MultByPrimeOrderCall ==
    /\ call.op \in {"none", "ScalarBaseMult"}
    /\ UNCHANGED <<pts, scs, fes>>
    /\ \E v \in GroupIds, p \in GroupIds :
         LET from == IF call.op = "ScalarBaseMult" /\ call.v = p
                     THEN call.scalars ELSE <<>>
         IN /\ call' = [op |-> "MultByPrimeOrder", v |-> v, points |-> <<p>>, scalars |-> from,
                        bytes |-> <<>>, pre |-> grp, ret |-> v]
            /\ grp' = MultByPrimeOrder(grp, v, p)

NextOrder == GroupScalarBaseMultCall \/ MultByPrimeOrderCall

SpecOrder == InitOrder /\ [][NextOrder]_vars

\* The multiples of 8 * G = B: the identity and the prime-order subgroup.
InPrimeOrderSubgroup(a) == a[1] % 8 = 0

\* The argument of the MultByPrimeOrder call as it was at entry.
EntryArgument == call.pre[call.points[1]]

\* C9: MultByPrimeOrder(p) returns its receiver holding l * p for p as it was
\* at entry, which is the identity exactly when p is the identity or in the
\* prime-order subgroup; it is the identity for B and for every result of
\* ScalarBaseMult.
C9_MultByPrimeOrder ==
    call.op = "MultByPrimeOrder" =>
        /\ call.ret = call.v
        /\ grp[call.v] = GroupTimes(PrimeOrder, EntryArgument)
        /\ (grp[call.v] = GroupIdentity) <=> InPrimeOrderSubgroup(EntryArgument)
        /\ EntryArgument = GroupBasepoint => grp[call.v] = GroupIdentity
        /\ call.scalars # <<>> => grp[call.v] = GroupIdentity

\* C9 witness: the argument is a ScalarBaseMult result other than the
\* identity and B, and the receiver is the identity afterwards.
C9_Witness ==
    /\ call.op = "MultByPrimeOrder"
    /\ call.scalars = <<BigSub(PrimeOrder, BigFromInt(1))>>
    /\ EntryArgument = BigSub(GroupOrder, GroupBasepoint)
    /\ grp[call.v] = GroupIdentity

\* C9 witness outside the subgroup: B plus a point of order 8 is taken to
\* 5 * l * G, other than the identity, with the receiver the argument object.
C9_WitnessLowOrder ==
    /\ call.op = "MultByPrimeOrder"
    /\ call.points = <<call.v>>
    /\ EntryArgument = GroupAdd(PrimeOrder, GroupBasepoint)
    /\ grp[call.v] = GroupAdd(BigDouble(BigDouble(PrimeOrder)), PrimeOrder)

---------------------------------------------------------------------------
(* Encoding a decoded point *)

\* The y and the sign bit an encoding carries.
EncodedY(x) == LittleEndian(x) % 2^FieldBits

EncodedSign(x) == LittleEndian(x) \div 2^FieldBits

\* The canonical encoding of the affine point a: y below p, the low bit of
\* x on top.
CanonicalEncoding(a) == ToBytes((a[2] % P) + 2^FieldBits * ((a[1] % P) % 2), EncLen)

\* C11: when SetBytes accepts an encoding, Bytes() of the receiver is the
\* canonical encoding of the decoded point, whose y is the encoded y modulo
\* p; it is the input itself when the encoded y is below p and the sign bit
\* is not set on x = 0.
C11_BytesOfSetBytes ==
    (Returned("SetBytes") /\ Len(call.bytes) = EncLen) =>
        LET a == Affine(pts[call.v])
        IN /\ a[2] = EncodedY(call.bytes) % P
           /\ PointBytes(pts[call.v]) = CanonicalEncoding(a)
           /\ (EncodedY(call.bytes) < P /\ ~(a[1] = 0 /\ EncodedSign(call.bytes) = 1))
                 => PointBytes(pts[call.v]) = call.bytes
           /\ a[1] # 0 => a[1] % 2 = EncodedSign(call.bytes)

\* C11 witness: an accepted encoding whose y is p or more, re-encoded
\* with y below p.
C11_Witness ==
    /\ Returned("SetBytes") /\ Len(call.bytes) = EncLen
    /\ EncodedY(call.bytes) >= P
    /\ PointBytes(pts[call.v]) # call.bytes
    /\ EncodedY(PointBytes(pts[call.v])) = EncodedY(call.bytes) - P

\* C11 witness for x = 0: the sign bit is set on y = 1 and cleared by Bytes().
C11_WitnessSignOfZero ==
    /\ Returned("SetBytes") /\ Len(call.bytes) = EncLen
    /\ call.bytes = ToBytes(1 + 2^FieldBits, EncLen)
    /\ PointBytes(pts[call.v]) = ToBytes(1, EncLen)

\* C11 witness for canonical encodings: that of -B comes back unchanged.
C11_WitnessCanonical ==
    /\ Returned("SetBytes") /\ Len(call.bytes) = EncLen
    /\ EncodedY(call.bytes) = GeneratorY
    /\ EncodedSign(call.bytes) = 1 - (GeneratorX % 2)
    /\ PointBytes(pts[call.v]) = call.bytes

---------------------------------------------------------------------------
(* field.Element encoding and decoding on limbs *)

\* Bitwise or of two naturals.
RECURSIVE OrBits(_, _)
OrBits(a, b) ==
    IF a = 0 THEN b
    ELSE IF b = 0 THEN a
    ELSE BitOr(a % 2, b % 2) + 2 * OrBits(a \div 2, b \div 2)

\* reduce without the conditional addition of 19.
ElementReduceCarryOnly(e) ==
    LET t == carryLimbs(e)
    IN <<t[1] % 2^LimbBits, t[2] % 2^LimbBits, t[3] % 2^LimbBits>>

\* reduce: carry, c = carry out of v + 19, l0 += 19 * c, carry again and
\* drop the carry out of the top limb.
ElementReduce(e) ==
    LET t  == carryLimbs(e)
        c0 == (t[1] + 19) \div 2^LimbBits
        c1 == (t[2] + c0) \div 2^LimbBits
        c  == (t[3] + c1) \div 2^LimbBits
        l0 == t[1] + 19 * c
        l1 == t[2] + (l0 \div 2^LimbBits)
        l2 == t[3] + (l1 \div 2^LimbBits)
    IN <<l0 % 2^LimbBits, l1 % 2^LimbBits, l2 % 2^LimbBits>>

\* Limb i is the window of the input shifted down to bit i * LimbBits and
\* masked; the top bit of the input is in no limb.
ElementSetBytes(h, v, x) ==
    [h EXCEPT ![v] = [i \in 1..3 |->
        (LittleEndian(x) \div 2^((i - 1) * LimbBits)) % 2^LimbBits]]

\* Each limb of the reduced copy is shifted to its offset and or-ed into the
\* output, bytes past the end dropped.
RECURSIVE ElementBytesLoop(_, _, _)
ElementBytesLoop(t, i, out) ==
    IF Evaluated(out) /\ i > 3 THEN out
    ELSE ElementBytesLoop(t, i + 1,
            OrBits(out, (t[i] * 2^((i - 1) * LimbBits)) % 2^(8 * EncLen)))

ElementBytes(e) == ToBytes(ElementBytesLoop(ElementReduce(e), 1, 0), EncLen)

---------------------------------------------------------------------------
(* Calls of Element.SetBytes and Element.Bytes, one after the other *)

\* Elements within bounds: limbs below 2^(LimbBits + 1).
BoundedElements ==
    { Limbs(0), Limbs(1930), Limbs(P - 1), Limbs(P), Limbs(2^FieldBits - 1),
      <<maskLowBits + 4, maskLowBits, maskLowBits>>,
      <<2 * maskLowBits + 1, 2 * maskLowBits + 1, 2 * maskLowBits + 1>>,
      <<0, 2^LimbBits, 2^LimbBits + 7>> }

\* The encodings offered to Element.SetBytes: small values, those around p
\* and up to 2^FieldBits - 1, each with the top bit clear or set.
FieldEncodings ==
    { ToBytes(n + top * 2^FieldBits, EncLen) :
        n \in (0..40) \cup {1930, 2^(FieldBits - 1)} \cup ((P - 40)..(2^FieldBits - 1)),
        top \in {0, 1} }

InitFieldBytes ==
    /\ fes \in { [i \in ElementIds \cup {"zero"} |->
                    CASE i = "v" -> a [] i = "x" -> b [] OTHER -> Limbs(0)] :
                 a \in BoundedElements, b \in BoundedElements }
    /\ pts = Unused /\ scs = Unused /\ grp = Unused
    /\ call = NoCall

\* SetBytes on offered bytes, or on the bytes the preceding Bytes call
\* returned; call.points then names the element they encode.
ElementSetBytesCall ==
    /\ call.op \in {"none", "Bytes"}
    /\ UNCHANGED <<pts, scs, grp>>
    /\ \E v \in {"v", "x"} :
         \E x \in IF call.op = "Bytes" THEN {call.ret} ELSE FieldEncodings :
            /\ call' = [op |-> "SetBytes", v |-> v,
                        points |-> IF call.op = "Bytes" THEN <<call.v>> ELSE <<>>,
                        scalars |-> <<>>, bytes |-> x,
                        pre |-> IF call.op = "Bytes" THEN call.pre ELSE fes, ret |-> v]
            /\ fes' = ElementSetBytes(fes, v, x)

\* Bytes: the receiver is copied, not written.  call.bytes keeps the input
\* of a preceding SetBytes on the same element.
ElementBytesCall ==
    /\ call.op \in {"none", "SetBytes"}
    /\ call.op = "SetBytes" => call.points = <<>>
    /\ UNCHANGED <<pts, scs, grp, fes>>
    /\ \E v \in {"v", "x"} :
         call' = [op |-> "Bytes", v |-> v, points |-> <<>>, scalars |-> <<>>,
                  bytes |-> IF call.op = "SetBytes" /\ call.v = v THEN call.bytes ELSE <<>>,
                  pre |-> fes, ret |-> ElementBytes(fes[v])]

NextFieldBytes == ElementSetBytesCall \/ ElementBytesCall

SpecFieldBytes == InitFieldBytes /\ [][NextFieldBytes]_vars

\* C12: Bytes after SetBytes(b) is the little-endian encoding of b without
\* its top bit, modulo p, which is b itself when that is below p; Bytes(x)
\* is the encoding of the value of x in 0..p-1 and leaves x alone; and
\* SetBytes of Bytes(x) is x as a field element, the same limbs after reduce.
C12_FieldBytesRoundTrip ==
    /\ call.op = "Bytes" =>
          /\ LittleEndian(call.ret) = LimbsValue(fes[call.v]) % P
          /\ Len(call.ret) = EncLen
          /\ fes = call.pre
    /\ (call.op = "Bytes" /\ call.bytes # <<>>) =>
          /\ LittleEndian(call.ret) = (LittleEndian(call.bytes) % 2^FieldBits) % P
          /\ LittleEndian(call.bytes) < P => call.ret = call.bytes
    /\ (call.op = "SetBytes" /\ call.points # <<>>) =>
          /\ LimbsValue(fes[call.v]) % P = LimbsValue(call.pre[call.points[1]]) % P
          /\ ElementReduce(fes[call.v]) = ElementReduce(call.pre[call.points[1]])
          /\ call.ret = call.v

\* C12 witness: bytes with a value from p to 2^FieldBits - 1 were decoded
\* and come back reduced.
C12_Witness ==
    /\ call.op = "Bytes" /\ call.bytes # <<>>
    /\ LittleEndian(call.bytes) >= P /\ LittleEndian(call.bytes) < 2^FieldBits
    /\ LittleEndian(call.ret) = LittleEndian(call.bytes) - P

\* C12 witness for the top bit: it is set in the input and clear in the output.
C12_WitnessTopBit ==
    /\ call.op = "Bytes" /\ call.bytes # <<>>
    /\ LittleEndian(call.bytes) >= 2^FieldBits
    /\ LittleEndian(call.ret) = 1930

\* C12 witness for the other direction: an element with limbs above the mask
\* was encoded and the bytes decoded into another element.
C12_WitnessElement ==
    /\ call.op = "SetBytes" /\ call.points = <<"x">> /\ call.v = "v"
    /\ call.pre["x"] = <<2 * maskLowBits + 1, 2 * maskLowBits + 1, 2 * maskLowBits + 1>>
    /\ fes["v"] # call.pre["x"]

---------------------------------------------------------------------------
(* Element.SetWideBytes *)

\* mul51: the low LimbBits bits of a * b and the rest.
mul51(a, b) == <<(a * b) % 2^LimbBits, (a * b) \div 2^LimbBits>>

\* Mult32: limb products, the high part of each carried into the next limb
\* and that of the top limb, times 19, into the lowest; no carry pass.
ElementMult32(h, v, x, y) ==
    LET x0 == mul51(h[x][1], y)
        x1 == mul51(h[x][2], y)
        x2 == mul51(h[x][3], y)
    IN [h EXCEPT ![v] = <<x0[1] + 19 * x2[2], x1[1] + x0[2], x2[1] + x1[2]>>]

SubSeqBytes(x, from, to) == [i \in 1..(to - from + 1) |-> x[from + i - 1]]

\* lo and hi are decoded from the two halves; carry holds
\* loMSB * 19 + hiMSB * 19 * 19; lo.Add(lo, carry); hi.Mult32(hi, 2 * 19);
\* v.Add(lo, hi).
ElementSetWideBytes(h, v, x) ==
    IF Len(x) # 2 * EncLen THEN [heap |-> h, ret |-> "nil", err |-> "error"]
    ELSE LET loMSB == x[EncLen] \div 128
             hiMSB == x[2 * EncLen] \div 128
             h0 == ("lo" :> Limbs(0)) @@ ("hi" :> Limbs(0)) @@
                   ("carry" :> <<loMSB * 19 + hiMSB * 19 * 19, 0, 0>>) @@ h
             h1 == ElementSetBytes(h0, "lo", SubSeqBytes(x, 1, EncLen))
             h2 == ElementSetBytes(h1, "hi", SubSeqBytes(x, EncLen + 1, 2 * EncLen))
             h3 == ElementAdd(h2, "lo", "lo", "carry")
             h4 == ElementMult32(h3, "hi", "hi", 2 * 19)
             h5 == ElementAdd(h4, v, "lo", "hi")
         IN [heap |-> [i \in DOMAIN h |-> h5[i]], ret |-> v, err |-> "nil"]

\* The inputs offered to SetWideBytes: each half small, around p, or with
\* all bits set below its top bit, and each top bit clear or set.
WideHalves ==
    { n + top * 2^FieldBits :
        n \in {0, 1, 2, 1930, P - 1, P, 2^FieldBits - 1}, top \in {0, 1} }

WideInputs == { ToBytes(lo, EncLen) \o ToBytes(hi, EncLen) : lo \in WideHalves, hi \in WideHalves }

InitWide ==
    /\ fes \in { [i \in ElementIds \cup {"zero"} |->
                    CASE i = "v" -> a [] OTHER -> Limbs(0)] : a \in BoundedElements }
    /\ pts = Unused /\ scs = Unused /\ grp = Unused
    /\ call = NoCall

SetWideBytesCall ==
    /\ call.op = "none"
    /\ UNCHANGED <<pts, scs, grp>>
    /\ \E v \in {"v", "x"}, x \in WideInputs \cup WrongLength :
         LET out == ElementSetWideBytes(fes, v, x)
         IN /\ call' = [op |-> "SetWideBytes", v |-> v, points |-> <<>>,
                        scalars |-> <<out.err>>, bytes |-> x, pre |-> fes, ret |-> out.ret]
            /\ fes' = out.heap

NextWide == SetWideBytesCall

SpecWide == InitWide /\ [][NextWide]_vars

\* The little-endian integer of a 2 * EncLen byte string, modulo p.
WideValue(x) ==
    (LittleEndian(SubSeqBytes(x, 1, EncLen))
       + ((2^(8 * EncLen)) % P) * LittleEndian(SubSeqBytes(x, EncLen + 1, 2 * EncLen))) % P

\* C13: SetWideBytes on 2 * EncLen bytes returns the receiver and a nil
\* error, and the receiver is congruent modulo p to the little-endian integer
\* of all the input bits.
C13_SetWideBytes ==
    (call.op = "SetWideBytes" /\ Len(call.bytes) = 2 * EncLen) =>
        /\ call.ret = call.v
        /\ call.scalars = <<"nil">>
        /\ LimbsValue(fes[call.v]) % P = WideValue(call.bytes)

\* SetWideBytes is right on the inputs whose last bit is clear, and is off
\* by 19 * 19 on the others.
SetWideBytesButLastBit ==
    (call.op = "SetWideBytes" /\ Len(call.bytes) = 2 * EncLen) =>
        /\ call.ret = call.v
        /\ call.scalars = <<"nil">>
        /\ (LimbsValue(fes[call.v]) + 19 * 19 * (call.bytes[2 * EncLen] \div 128)) % P
              = WideValue(call.bytes)

---------------------------------------------------------------------------
(* Element.SqrtRatio on the heap, with its temporaries *)

\* Equal compares the encodings.
ElementEqual(h, v, u) == IF ElementBytes(h[u]) = ElementBytes(h[v]) THEN 1 ELSE 0

\* x^((p - 5) / 8) on local temporaries: x^(2^10 - 1), two squarings, and
\* v.Multiply(&t0, x) as the only write to v.
ElementPow22523(h, v, x) ==
    LET x2    == feSquareGeneric(h[x])
        x9    == feMulGeneric(h[x], SquareTimes(x2, 2))
        x11   == feMulGeneric(x2, x9)
        x31   == feMulGeneric(x9, feSquareGeneric(x11))
        x1023 == feMulGeneric(SquareTimes(x31, 5), x31)
        t0    == SquareTimes(x1023, 2)
    IN [h EXCEPT ![v] = feMulGeneric(t0, h[x])]

\* SqrtRatio up to the selection between r and r * sqrtM1: the heap with the
\* temporaries a and b, and the two flags returned.
SqrtRatioCandidate(h, r, u, v) ==
    LET h0  == ("a" :> Limbs(0)) @@ ("b" :> Limbs(0)) @@ ("sqrtM1" :> Limbs(sqrtM1)) @@ h
        h1  == ElementSquare(h0, "a", v)
        h2  == ElementMultiply(ElementMultiply(h1, "b", "a", v), "b", u, "b")
        h3  == ElementMultiply(ElementSquare(h2, "a", "a"), "a", "b", "a")
        h4  == ElementMultiply(ElementPow22523(h3, r, "a"), r, "b", r)
        h5  == ElementMultiply(ElementSquare(h4, "a", r), "a", v, "a")
        h6  == ElementNegate(h5, "b", u)
        correctSignSqrt  == ElementEqual(h6, "a", u)
        flippedSignSqrt  == ElementEqual(h6, "a", "b")
        h7  == ElementMultiply(h6, "b", "b", "sqrtM1")
        flippedSignSqrtI == ElementEqual(h7, "a", "b")
        h8  == ElementMultiply(h7, "b", r, "sqrtM1")
        h9  == ElementSelect(h8, r, "b", r, BitOr(flippedSignSqrt, flippedSignSqrtI))
    IN [heap |-> h9, wasSquare |-> BitOr(correctSignSqrt, flippedSignSqrt)]

\* SqrtRatio that leaves the selected root as it is.
ElementSqrtRatioAnySign(h, r, u, v) ==
    LET c == SqrtRatioCandidate(h, r, u, v)
    IN [heap |-> [i \in DOMAIN h |-> c.heap[i]], wasSquare |-> c.wasSquare]

\* r.Absolute(r) on the candidate; return r, correctSignSqrt | flippedSignSqrt.
ElementSqrtRatio(h, r, u, v) ==
    LET c  == SqrtRatioCandidate(h, r, u, v)
        h1 == ElementAbsolute(c.heap, r, r)
    IN [heap |-> [i \in DOMAIN h |-> h1[i]], wasSquare |-> c.wasSquare]

\* The values offered as u and v, in limbs: small ones, large ones, and two
\* representations with a limb above the mask.
RatioElements ==
    { Limbs(n) : n \in (0..12) \cup {1930, P - 4, P - 2, P - 1} }
      \cup { <<maskLowBits + 4, maskLowBits, maskLowBits>>, <<2^LimbBits + 2, 0, 0>> }

InitSqrt ==
    /\ fes \in { [i \in ElementIds \cup {"zero"} |->
                    CASE i = "x" -> a [] i = "y" -> b [] i = "v" -> Limbs(7) [] OTHER -> Limbs(0)] :
                 a \in RatioElements, b \in RatioElements }
    /\ pts = Unused /\ scs = Unused /\ grp = Unused
    /\ call = NoCall

\* r.SqrtRatio(u, v) with u in x and v in y; the receiver is any of the
\* three elements.  call.scalars holds wasSquare.
SqrtRatioCall ==
    /\ call.op = "none"
    /\ UNCHANGED <<pts, scs, grp>>
    /\ \E r \in ElementIds :
         LET out == ElementSqrtRatio(fes, r, "x", "y")
         IN /\ call' = [op |-> "SqrtRatio", v |-> r, points |-> <<"x", "y">>,
                        scalars |-> <<out.wasSquare>>, bytes |-> <<>>, pre |-> fes, ret |-> r]
            /\ fes' = out.heap

NextSqrt == SqrtRatioCall

SpecSqrt == InitSqrt /\ [][NextSqrt]_vars

\* The field element an Element denotes.
ElementValue(e) == LimbsValue(e) % P

\* u / v is a square; 0 counts as one whatever v is.
IsSquareRatio(u, v) == u = 0 \/ (v # 0 /\ FeMultiply(u, FeInvert(v)) \in Squares)

\* C14: SqrtRatio(u, v) into a receiver other than u and v returns the
\* receiver holding a non-negative r, and wasSquare = 1 exactly when u / v is
\* a square, in which case v * r^2 = u; u = 0 gives (0, 1), and u # 0 with
\* v = 0 gives (0, 0).
C14_SqrtRatio ==
    (call.op = "SqrtRatio" /\ call.v = "v") =>
        LET u  == ElementValue(call.pre["x"])
            v  == ElementValue(call.pre["y"])
            r  == ElementValue(fes[call.v])
            wasSquare == call.scalars[1]
        IN /\ call.ret = call.v
           /\ r % 2 = 0
           /\ wasSquare \in {0, 1}
           /\ wasSquare = 1 <=> IsSquareRatio(u, v)
           /\ wasSquare = 1 => FeMultiply(v, FeSquare(r)) = u
           /\ u = 0 => (r = 0 /\ wasSquare = 1)
           /\ (u # 0 /\ v = 0) => (r = 0 /\ wasSquare = 0)
           /\ fes["x"] = call.pre["x"] /\ fes["y"] = call.pre["y"]

\* C14 witness: a square ratio other than 0 and 1 whose first candidate root
\* was negative or of the wrong sign.
C14_Witness ==
    /\ call.op = "SqrtRatio" /\ call.v = "v"
    /\ call.scalars = <<1>>
    /\ ElementValue(call.pre["x"]) > 1 /\ ElementValue(call.pre["y"]) > 1
    /\ ElementValue(call.pre["x"]) # ElementValue(call.pre["y"])
    /\ ElementValue(fes["v"]) > 1

\* C14 witness for a ratio that is not a square, with u and v not zero.
C14_WitnessNotSquare ==
    /\ call.op = "SqrtRatio" /\ call.v = "v"
    /\ call.scalars = <<0>>
    /\ ElementValue(call.pre["x"]) # 0 /\ ElementValue(call.pre["y"]) # 0

\* C14 witness for v = 0 with u # 0.
C14_WitnessZeroDenominator ==
    /\ call.op = "SqrtRatio" /\ call.v = "v"
    /\ ElementValue(call.pre["x"]) # 0 /\ ElementValue(call.pre["y"]) = 0
    /\ call.scalars = <<0>> /\ ElementValue(fes["v"]) = 0
---------------------------------------------------------------------------
(* Scalar.Invert at the full-size group order.  The non-zero scalars      *)
(* modulo the prime l form a cyclic group of order l - 1; a non-zero      *)
(* scalar is held as its exponent to a fixed generator g, a number below  *)
(* l - 1, and the zero scalar as the empty sequence.  Multiplying scalars *)
(* adds exponents modulo l - 1.                                           *)

LogOfZero == <<>>

LogModulus == BigSub(PrimeOrder, BigFromInt(1))

LogOfOne == BigFromInt(0)

LogOfGenerator == BigFromInt(1)

LogMultiply(a, b) ==
    IF a = LogOfZero \/ b = LogOfZero THEN LogOfZero
    ELSE LET s == BigAdd(a, b)
         IN IF BigLess(s, LogModulus) THEN s ELSE BigSub(s, LogModulus)

\* s.Multiply(x, y) on the heap of scalars.
ScalarLogMultiply(h, s, x, y) == [h EXCEPT ![s] = LogMultiply(h[x], h[y])]

\* s.pow2k(k): k squarings of s, the count taken in two halves.
RECURSIVE LogPow2k(_, _, _)
LogPow2k(h, s, k) ==
    IF Evaluated(h) /\ k = 0 THEN h
    ELSE IF k = 1 THEN ScalarLogMultiply(h, s, s, s)
    ELSE LogPow2k(LogPow2k(h, s, k \div 2), s, k - (k \div 2))

\* table[i] = t^(2i + 1), at index i + 1
RECURSIVE LogInvertTable(_, _)
LogInvertTable(table, tt) ==
    IF Evaluated(table) /\ Len(table) = 8 THEN table
    ELSE LogInvertTable(Append(table, LogMultiply(table[Len(table)], tt)), tt)

RECURSIVE LogInvertRun(_, _, _, _)
LogInvertRun(h, s, table, i) ==
    IF Evaluated(h) /\ i > Len(InvertSteps) THEN h
    ELSE LET h1 == LogPow2k(h, s, InvertSteps[i][1])
             h2 == [h1 EXCEPT ![s] = LogMultiply(h1[s], table[(InvertSteps[i][2] \div 2) + 1])]
         IN LogInvertRun(h2, s, table, i + 1)

\* The same chain started from table[3/2] instead of table[1/2].
LogInvertFromCube(h, s, t) ==
    LET tt    == LogMultiply(h[t], h[t])
        table == LogInvertTable(<<h[t]>>, tt)
    IN LogInvertRun([h EXCEPT ![s] = table[2]], s, table, 1)

\* s.Invert(t): the table is copied from t before s is written.
LogInvert(h, s, t) ==
    LET tt    == LogMultiply(h[t], h[t])
        table == LogInvertTable(<<h[t]>>, tt)
    IN LogInvertRun([h EXCEPT ![s] = table[1]], s, table, 1)

\* zero, 1, g, g^2, g^(2^200), g^(l - 3), g^(l - 2)
LogValues ==
    {LogOfZero, LogOfOne, LogOfGenerator, BigFromInt(2), BigPow2(200),
     BigSub(PrimeOrder, BigFromInt(3)), BigSub(PrimeOrder, BigFromInt(2))}

InitInvert ==
    /\ scs \in { [i \in ScalarIds |-> CASE i = "s" -> a [] i = "x" -> b [] OTHER -> c] :
                   a \in {LogOfOne, LogOfGenerator}, b \in LogValues, c \in LogValues }
    /\ pts = Unused /\ fes = Unused /\ grp = Unused
    /\ call = NoCall

\* s.Invert(t), receiver and argument possibly the same scalar.
InvertCall ==
    /\ call.op = "none"
    /\ UNCHANGED <<pts, fes, grp>>
    /\ \E s \in ScalarIds, t \in ScalarIds :
         /\ scs' = LogInvert(scs, s, t)
         /\ call' = [op |-> "Invert", v |-> s, points |-> <<>>, scalars |-> <<t>>,
                     bytes |-> <<>>, pre |-> scs, ret |-> s]

NextInvert == InvertCall

SpecInvert == InitInvert /\ [][NextInvert]_vars

\* C15: Scalar.Invert(t) is t^(l - 2): for t the generator the exponent the
\* chain of pow2k squarings and table multiplications realises is exactly
\* l - 2, Multiply(t, Invert(t)) is 1 for every non-zero t, Invert(0) is 0,
\* and no scalar other than the receiver is written.
C15_ScalarInvert ==
    call.op = "Invert" =>
        LET t == call.pre[call.scalars[1]]
            r == scs[call.v]
        IN /\ t = LogOfZero => r = LogOfZero
           /\ t # LogOfZero => LogMultiply(t, r) = LogOfOne
           /\ t = LogOfGenerator => r = BigSub(PrimeOrder, BigFromInt(2))
           /\ \A i \in ScalarIds \ {call.v} : scs[i] = call.pre[i]

\* C15 witness: the inverse of the generator has been computed.
C15_Witness ==
    /\ call.op = "Invert"
    /\ call.pre[call.scalars[1]] = LogOfGenerator
    /\ scs[call.v] = BigSub(PrimeOrder, BigFromInt(2))

\* C15 witness: zero has been inverted, into a receiver that was not zero.
C15_WitnessZero ==
    /\ call.op = "Invert"
    /\ call.pre[call.scalars[1]] = LogOfZero
    /\ call.pre[call.v] # LogOfZero
    /\ scs[call.v] = LogOfZero

\* C15 witness: a scalar has been inverted in place.
C15_WitnessInPlace ==
    /\ call.op = "Invert"
    /\ call.scalars[1] = call.v
    /\ call.pre[call.v] = BigPow2(200)
    /\ scs[call.v] # call.pre[call.v]---------------------------------------------------------------------------
(* Sequences of Scalar operations *)

MaxOps == 2

\* The three pieces of a 2 * EncLen byte string, each below l: bits 0..10,
\* 11..21 and 22..31.
UniformPieces(x) ==
    LET lo == LittleEndian(SubSeq(x, 1, EncLen))
        hi == LittleEndian(SubSeq(x, EncLen + 1, 2 * EncLen))
    IN <<lo % 2^11, (lo \div 2^11) + (hi % 2^6) * 2^5, hi \div 2^6>>

\* SetUniformBytes with the result left one byte too wide.
ScSetUniformBytesUnreduced(x) ==
    ToBytes(LittleEndian(SubSeq(x, 1, EncLen)) + LittleEndian(SubSeq(x, EncLen + 1, 2 * EncLen)), EncLen)

\* Scalar.SetUniformBytes: x = a + b * 2^11 + c * 2^22, by two
\* multiplications and two additions modulo l.
ScSetUniformBytes(x) ==
    LET q == UniformPieces(x)
    IN ScAdd(ScAdd(ScFromInt(q[1]), ScMultiply(ScFromInt(q[2]), ScFromInt(2^11))),
             ScMultiply(ScFromInt(q[3]), ScFromInt(2^22)))

ScalarSetUniformBytes(h, s, x) ==
    IF Len(x) # 2 * EncLen THEN [heap |-> h, ret |-> "nil"]
    ELSE [heap |-> [h EXCEPT ![s] = ScSetUniformBytes(x)], ret |-> s]

\* The clamping: the low three bits and the top bit cleared, the bit below
\* the top one set.
Clamp(x) ==
    [i \in 1..EncLen |->
        CASE i = 1 /\ i = EncLen -> (((x[i] \div 8) * 8) % 64) + 64
          [] i = 1               -> (x[i] \div 8) * 8
          [] i = EncLen          -> (x[i] % 64) + 64
          [] OTHER               -> x[i]]

\* Scalar.SetBytesWithClamping: the clamped bytes, widened with zero bytes,
\* go through SetUniformBytes.
ScalarSetBytesWithClamping(h, s, x) ==
    IF Len(x) # EncLen THEN [heap |-> h, ret |-> "nil"]
    ELSE ScalarSetUniformBytes(h, s, Clamp(x) \o [i \in 1..EncLen |-> 0])

UniformInputs ==
    { ToBytes(lo, EncLen) \o ToBytes(hi, EncLen) :
        lo \in {0, L, 2^16 - 1}, hi \in {0, 2^15, 2^16 - 1} }

ClampInputs == { ToBytes(n, EncLen) : n \in {0, L, 2^16 - 1} }

ReducedInputs == { ToBytes(n, EncLen) : n \in {2, L - 2, L} }

InitOps ==
    /\ scs \in { [i \in ScalarIds |-> CASE i = "s" -> ScFromInt(0) [] i = "x" -> a [] OTHER -> b] :
                   a \in {ScFromInt(1929), ScFromInt(L - 1)},
                   b \in {ScFromInt(1), ScFromInt(L - 1)} }
    /\ pts = Unused /\ fes = Unused /\ grp = Unused
    /\ call = [ops |-> 0] @@ NoCall

\* The call made and the number of calls so far.  The receiver is the
\* Scalar s, which is also one of the arguments offered.
OpsCall(op, s, args, x, ret) ==
    [op |-> op, v |-> s, points |-> <<>>, scalars |-> args, bytes |-> x,
     pre |-> scs, ret |-> ret, ops |-> call.ops + 1]

ArithmeticCall ==
    /\ call.ops < MaxOps
    /\ UNCHANGED <<pts, fes, grp>>
    /\ \E op \in {"Invert", "Negate", "Multiply", "Add", "Subtract"},
          s \in {"s"}, x \in ScalarIds, y \in ScalarIds :
         /\ op \in OneArg => y = x
         /\ call' = OpsCall(op, s, <<x, y>>, <<>>, s)
         /\ scs' = ApplyScalarOp(op, scs, s, x, y)

SetUniformBytesCall ==
    /\ call.ops < MaxOps
    /\ UNCHANGED <<pts, fes, grp>>
    /\ \E s \in {"s"}, x \in UniformInputs :
         LET out == ScalarSetUniformBytes(scs, s, x)
         IN /\ call' = OpsCall("SetUniformBytes", s, <<>>, x, out.ret)
            /\ scs' = out.heap

SetBytesWithClampingCall ==
    /\ call.ops < MaxOps
    /\ UNCHANGED <<pts, fes, grp>>
    /\ \E s \in {"s"}, x \in ClampInputs :
         LET out == ScalarSetBytesWithClamping(scs, s, x)
         IN /\ call' = OpsCall("SetBytesWithClamping", s, <<>>, x, out.ret)
            /\ scs' = out.heap

SetReducedBytesCall ==
    /\ call.ops < MaxOps
    /\ UNCHANGED <<pts, fes, grp>>
    /\ \E s \in {"s"}, x \in ReducedInputs :
         LET out == ScalarSetCanonicalBytes(scs, s, x)
         IN /\ call' = OpsCall("SetCanonicalBytes", s, <<>>, x, out.ret)
            /\ scs' = out.heap

NextOps ==
    \/ ArithmeticCall
    \/ SetUniformBytesCall
    \/ SetBytesWithClampingCall
    \/ SetReducedBytesCall

SpecOps == InitOps /\ [][NextOps]_vars

\* The integer a 2 * EncLen byte string encodes, modulo l.
UniformValue(x) ==
    (LittleEndian(SubSeq(x, 1, EncLen))
       + LittleEndian(SubSeq(x, EncLen + 1, 2 * EncLen)) * ((2^(8 * EncLen)) % L)) % L

\* C16: after any sequence of scalar operations every Scalar is EncLen bytes
\* whose little-endian value is below l (isReduced agrees), and after
\* SetUniformBytes(b) the receiver holds the integer b modulo l.
C16_ScalarsReduced ==
    /\ \A i \in ScalarIds :
         /\ Len(scs[i]) = EncLen
         /\ \A k \in 1..EncLen : scs[i][k] \in 0..255
         /\ LittleEndian(scs[i]) < L
         /\ isReduced(scs[i])
    /\ call.op = "SetUniformBytes" =>
         /\ call.ret = call.v
         /\ LittleEndian(scs[call.v]) = UniformValue(call.bytes)

\* C16 witness: the second operation of a sequence was SetUniformBytes of
\* the largest input, after an arithmetic operation.
C16_Witness ==
    /\ call.ops = 2
    /\ call.op = "SetUniformBytes"
    /\ call.bytes = [i \in 1..(2 * EncLen) |-> 255]
    /\ LittleEndian(scs[call.v]) = UniformValue(call.bytes)
    /\ \E i \in ScalarIds : scs[i] # call.pre[i]

\* C16 witness: an addition of l - 1 and l - 1 has wrapped around l.
C16_WitnessWrap ==
    /\ call.op = "Add"
    /\ LittleEndian(call.pre[call.scalars[1]]) = L - 1
    /\ LittleEndian(call.pre[call.scalars[2]]) = L - 1
    /\ LittleEndian(scs[call.v]) = L - 2

\* C16 witness: clamped bytes above l have been reduced.
C16_WitnessClamped ==
    /\ call.op = "SetBytesWithClamping"
    /\ LittleEndian(Clamp(call.bytes)) >= 4 * L
    /\ LittleEndian(scs[call.v]) = LittleEndian(Clamp(call.bytes)) % L---------------------------------------------------------------------------
(* Point.BytesMontgomery *)

\* BytesMontgomery with Y taken for the affine y.
bytesMontgomeryOfY(p) ==
    LET recip == FeInvert(FeSubtract(1, p.y))
    IN FeBytes(FeMultiply(FeAdd(1, p.y), recip))

\* bytesMontgomery: y = Y / Z, recip = 1 / (1 - y), u = (1 + y) * recip, and
\* the bytes of u.
bytesMontgomery(p) ==
    LET y     == FeMultiply(p.y, FeInvert(p.z))
        recip == FeInvert(FeSubtract(1, y))
        u     == FeMultiply(FeAdd(1, y), recip)
    IN FeBytes(u)

RECURSIVE GeneratorTimes(_)
GeneratorTimes(k) == IF k = 0 THEN Identity ELSE PointAdd(GeneratorTimes(k - 1), Generator)

\* Multiples of the base point, the eight points of small order, sums of
\* the two, and the negations of all of them.
MontgomeryPoints ==
    LET base == { GeneratorTimes(k) : k \in 0..6 }
                  \cup { LowOrderTimes(k) : k \in 0..7 }
                  \cup { PointAdd(GeneratorTimes(k), LowOrderTimes(j)) : k \in 1..2, j \in 1..7 }
    IN base \cup { PointNegate(p) : p \in base }

\* Each point in several projective representations.
MontgomeryRepresentations ==
    { Scaled(p, k) : p \in MontgomeryPoints, k \in {1, 2, 1930, P - 1} }

InitMontgomery ==
    /\ pts \in { [i \in PointIds |->
                    CASE i = "v" -> a [] i = "p" -> ZeroValue [] OTHER -> Generator] :
                 a \in MontgomeryRepresentations }
    /\ scs = Unused /\ fes = Unused /\ grp = Unused
    /\ call = NoCall

BytesMontgomeryCall ==
    /\ call.op = "none"
    /\ UNCHANGED <<pts, scs, fes, grp>>
    /\ \E v \in PointIds :
         IF ~checkInitialized(pts[v])
         THEN call' = Call("BytesMontgomery", v, <<>>, <<>>, <<>>, "panic")
         ELSE call' = Call("BytesMontgomery", v, <<>>, <<>>, <<>>, bytesMontgomery(pts[v]))

NextMontgomery == BytesMontgomeryCall

SpecMontgomery == InitMontgomery /\ [][NextMontgomery]_vars

\* The point in the representation with Z = 1.
Normalised(p) ==
    LET a == Affine(p) IN PointRec(a[1], a[2], 1, FeMultiply(a[1], a[2]))

\* C17: BytesMontgomery returns EncLen bytes whose little-endian value u is
\* below p and satisfies u * (1 - y) = 1 + y for the affine y = Y/Z, and is 0
\* when y = 1 (the identity); the bytes are those returned for the
\* normalised point and for the normalised negation; the point is not
\* written.
C17_BytesMontgomery ==
    (call.op = "BytesMontgomery" /\ call.ret # "panic") =>
        LET v == pts[call.v]
            y == Affine(v)[2]
            u == LittleEndian(call.ret)
        IN /\ Len(call.ret) = EncLen
           /\ \A k \in 1..EncLen : call.ret[k] \in 0..255
           /\ u < P
           /\ y # 1 => FeMultiply(u, FeSubtract(1, y)) = FeAdd(1, y)
           /\ y = 1 => u = 0
           /\ FeMultiply(y, v.z) = v.y
           /\ call.ret = bytesMontgomery(Normalised(v))
           /\ call.ret = bytesMontgomery(Normalised(PointNegate(v)))
           /\ pts = call.pre

\* C17 witness: the bytes of a point with x # 0 held with Z # 1, whose u is
\* neither 0 nor 1.
C17_Witness ==
    /\ call.op = "BytesMontgomery"
    /\ call.ret # "panic"
    /\ pts[call.v].z \notin {0, 1}
    /\ pts[call.v].x # 0
    /\ LittleEndian(call.ret) > 1

\* C17 witness: the identity held with Z # 1 gives zero bytes.
C17_WitnessIdentity ==
    /\ call.op = "BytesMontgomery"
    /\ pts[call.v] = Scaled(Identity, 1930)
    /\ call.ret = [i \in 1..EncLen |-> 0]

\* C17 witness: the negation of the base point gives the bytes of the base
\* point.
C17_WitnessNegation ==
    /\ call.op = "BytesMontgomery"
    /\ Normalised(pts[call.v]) = PointNegate(Generator)
    /\ call.ret = bytesMontgomery(Generator)---------------------------------------------------------------------------
(* The length check of MultiScalarMult and VarTimeMultiScalarMult *)

\* C18: a call of MultiScalarMult or VarTimeMultiScalarMult with slices of
\* different lengths panics, with the panic of the length comparison also
\* when a point of the slice was never set (no point has been read), and
\* every Point, the receiver included, is as it was before the call.
C18_LengthMismatchPanics ==
    (/\ call.op \in {"MultiScalarMult", "VarTimeMultiScalarMult"}
     /\ Len(call.scalars) # Len(call.points)) =>
        /\ call.ret = "panic"
        /\ call.bytes = <<"different size inputs">>
        /\ pts = call.pre

\* C18 witness: MultiScalarMult called with more points than scalars, one
\* of the points never set, on a receiver that was set.
C18_Witness ==
    /\ call.op = "MultiScalarMult"
    /\ Len(call.scalars) < Len(call.points)
    /\ ~AllInitialized(call.pre, call.points)
    /\ checkInitialized(call.pre[call.v])
    /\ call.ret = "panic"
    /\ pts[call.v] = call.pre[call.v]

\* C18 witness: VarTimeMultiScalarMult called with scalars and no points.
C18_WitnessVarTime ==
    /\ call.op = "VarTimeMultiScalarMult"
    /\ Len(call.scalars) = MaxN
    /\ Len(call.points) = 0
    /\ call.ret = "panic"
    /\ pts = call.pre

\* C18 witness: with equal lengths the only panic is that of
\* checkInitialized.
C18_WitnessUninitialized ==
    /\ call.op = "MultiScalarMult"
    /\ Len(call.scalars) = Len(call.points)
    /\ call.ret = "panic"
    /\ call.bytes = <<"uninitialized">>---------------------------------------------------------------------------
(* Chains of group operations *)

\* Doubling without the conversion back from the completed point.
PointDoubleUnconverted(p) ==
    LET r == P1xP1Double(P2FromP3(p)) IN PointRec(r.X, r.Y, r.Z, r.T)

\* Doubling: P3 -> P2, Double into P1xP1, back to P3.
PointDouble(p) == fromP1xP1(P1xP1Double(P2FromP3(p)))

ApplyPointOp(op, h, v, p, q, x) ==
    CASE op = "Add"            -> [h EXCEPT ![v] = PointAdd(h[p], h[q])]
      [] op = "Subtract"       -> [h EXCEPT ![v] = PointSubtract(h[p], h[q])]
      [] op = "Negate"         -> [h EXCEPT ![v] = PointNegate(h[p])]
      [] op = "Double"         -> [h EXCEPT ![v] = PointDouble(h[p])]
      [] op = "MultByCofactor" -> MultByCofactor(h, v, p)
      [] op = "ScalarMult"     -> ScalarMul(h, v, x, p)
      [] op = "ScalarBaseMult" -> BasepointMul(h, v, x)

\* Valid points: the identity, the base point also with Z # 1, the points
\* of order 2, 4 and 8, and a sum of the base point and a point of order 8.
ValidPoints ==
    {Identity, Generator, Scaled(Generator, 1930), LowOrder, LowOrderTimes(2),
     LowOrderTimes(4), PointAdd(Generator, LowOrder)}

InitChain ==
    /\ pts \in { [i \in PointIds |->
                    CASE i = "v" -> Identity [] i = "p" -> a [] OTHER -> b] :
                 a \in ValidPoints, b \in {Generator} }
    /\ scs = Unused /\ fes = Unused /\ grp = Unused
    /\ call = [ops |-> 0] @@ NoCall

\* The receiver is the Point v, which is also one of the arguments offered.
PointOpCall ==
    /\ call.ops < MaxOps
    /\ UNCHANGED <<scs, fes, grp>>
    /\ \E op \in {"Add", "Subtract", "Negate", "Double", "MultByCofactor",
                  "ScalarMult", "ScalarBaseMult"},
          v \in {"v"}, p \in PointIds, q \in PointIds, x \in {ScFromInt(1929), ScFromInt(L - 1)} :
         /\ op \notin {"Add", "Subtract"} => q = p
         /\ op \notin {"ScalarMult", "ScalarBaseMult"} => x = ScFromInt(1929)
         /\ op = "ScalarBaseMult" => p = v
         /\ call' = [ops |-> call.ops + 1] @@ Call(op, v, <<p, q>>, <<x>>, <<>>, "v")
         /\ pts' = ApplyPointOp(op, pts, v, p, q, x)

NextChain == PointOpCall

SpecChain == InitChain /\ [][NextChain]_vars

\* C19: starting from points that satisfy both curve equations with Z # 0,
\* after every chain of Add, Subtract, Negate, doubling, MultByCofactor,
\* ScalarMult and ScalarBaseMult every Point satisfies
\* -X^2 + Y^2 = Z^2 + d*T^2 and X*Y = Z*T with Z # 0 (the check of the
\* tests agrees), and only the receiver of the last call has been written.
C19_ValidityPreserved ==
    /\ \A i \in PointIds :
         /\ pts[i].z # 0
         /\ Equation1(pts[i].x, pts[i].y, pts[i].z, pts[i].t)
         /\ Equation2(pts[i].x, pts[i].y, pts[i].z, pts[i].t)
         /\ Valid(pts[i])
    /\ call.op # "none" => \A i \in PointIds \ {call.v} : pts[i] = call.pre[i]

\* C19 witness: a point has been subtracted from itself after another
\* operation; the result is the identity held with Z # 1.
C19_Witness ==
    /\ call.ops = 2
    /\ call.op = "Subtract"
    /\ call.points[1] = call.points[2]
    /\ pts[call.v].z \notin {0, 1}
    /\ pts[call.v].x = 0
    /\ pts[call.v].y = pts[call.v].z

\* C19 witness: a point of order 4, whose y is 0, has been doubled.
C19_WitnessDouble ==
    /\ call.op = "Double"
    /\ call.pre[call.points[1]].y = 0
    /\ pts[call.v].x = 0
    /\ pts[call.v].y # 0

\* C19 witness: a ScalarMult by l - 1 of the result of an earlier operation.
C19_WitnessScalarMult ==
    /\ call.ops = 2
    /\ call.op = "ScalarMult"
    /\ call.scalars = <<ScFromInt(L - 1)>>
    /\ call.points[1] = "v"
    /\ call.pre["v"] # Identity
    /\ pts[call.v].x # 0---------------------------------------------------------------------------
(* The steps the constant-time multiplications execute.  A step names the  *)
(* operation executed, the table it touches (0 for none) and the entry of  *)
(* that table it touches (0 for none); the values computed with are not    *)
(* part of a step.                                                         *)

Step(op, table, entry) == <<op, table, entry>>

\* table.FromP3(q): entry 1 from q, entry k from q + entry k-1.
TableSteps(j) ==
    <<Step("FromP3", j, 1)>>
    \o [k \in 1..14 |-> IF k % 2 = 1 THEN Step("Add", j, (k + 1) \div 2)
                                     ELSE Step("FromP3", j, (k \div 2) + 1)]

\* table.SelectInto(dest, x): dest.Zero(), then every entry is passed to
\* Select, then CondNeg.
SelectSteps(j, x) ==
    <<Step("Zero", 0, 0)>>
    \o [k \in 1..8 |-> Step("Select", j, k)]
    \o <<Step("CondNeg", 0, 0)>>

\* tmp1.Double(tmp2) four times, with the conversions between.
Mul16Steps ==
    <<Step("Double", 0, 0), Step("FromP1xP1", 0, 0), Step("Double", 0, 0),
      Step("FromP1xP1", 0, 0), Step("Double", 0, 0), Step("FromP1xP1", 0, 0),
      Step("Double", 0, 0), Step("FromP1xP1", 0, 0)>>

\* The lookup-and-add with nothing executed for a zero digit.
LookupAndAddStepsSkipZero(j, x) ==
    IF x = 0 THEN <<>>
    ELSE SelectSteps(j, x) \o <<Step("Add", 0, 0), Step("FromP1xP1", 0, 0)>>

\* tables[j].SelectInto(multiple, x); tmp1.Add(v, multiple); v.fromP1xP1(tmp1)
LookupAndAddSteps(j, x) ==
    SelectSteps(j, x) \o <<Step("Add", 0, 0), Step("FromP1xP1", 0, 0)>>

\* for j := range tables: the lookup-and-add of digit i of scalar j
RECURSIVE LookupLoopSteps(_, _, _, _)
LookupLoopSteps(digits, i, j, acc) ==
    IF Evaluated(acc) /\ j > Len(digits) THEN acc
    ELSE LookupLoopSteps(digits, i, j + 1, acc \o LookupAndAddSteps(j, digits[j][i + 1]))

\* for i := from; i >= 0; i--: four doublings, then the lookups
RECURSIVE MultiLoopSteps(_, _, _)
MultiLoopSteps(digits, i, acc) ==
    IF Evaluated(acc) /\ i < 0 THEN acc
    ELSE MultiLoopSteps(digits, i - 1,
            LookupLoopSteps(digits, i, 1, acc \o Mul16Steps) \o <<Step("FromP3", 0, 0)>>)

RECURSIVE TablesSteps(_, _, _)
TablesSteps(n, j, acc) ==
    IF Evaluated(acc) /\ j > n THEN acc
    ELSE TablesSteps(n, j + 1, acc \o TableSteps(j))

MultiScalarMultSteps(scalars, points) ==
    LET digits == [j \in 1..Len(scalars) |-> signedRadix16(scalars[j])]
        built  == TablesSteps(Len(points), 1, <<>>)
                    \o [j \in 1..Len(scalars) |-> Step("signedRadix16", 0, 0)]
        first  == LookupLoopSteps(digits, NumDigits - 1, 1, built) \o <<Step("FromP3", 0, 0)>>
    IN MultiLoopSteps(digits, NumDigits - 2, first)

\* for i := from; i >= 0; i--: four doublings, the lookup, the addition
RECURSIVE ScalarMulLoopSteps(_, _, _)
ScalarMulLoopSteps(digits, i, acc) ==
    IF Evaluated(acc) /\ i < 0 THEN acc
    ELSE ScalarMulLoopSteps(digits, i - 1,
            acc \o <<Step("FromP1xP1", 0, 0)>> \o Mul16Steps
                \o SelectSteps(1, digits[i + 1]) \o <<Step("Add", 0, 0)>>)

ScalarMulSteps(x) ==
    LET digits == signedRadix16(x)
        first  == TableSteps(1) \o <<Step("Zero", 0, 0), Step("signedRadix16", 0, 0)>>
                    \o SelectSteps(1, digits[NumDigits]) \o <<Step("Add", 0, 0)>>
    IN ScalarMulLoopSteps(digits, NumDigits - 2, first) \o <<Step("FromP1xP1", 0, 0)>>

\* for i := from; i < NumDigits; i += 2: the lookup in basepointTable[i/2],
\* the addition, the conversion
RECURSIVE BasepointLoopSteps(_, _, _)
BasepointLoopSteps(digits, i, acc) ==
    IF Evaluated(acc) /\ i >= NumDigits THEN acc
    ELSE BasepointLoopSteps(digits, i + 2,
            acc \o SelectSteps((i \div 2) + 1, digits[i + 1])
                \o <<Step("AddAffine", 0, 0), Step("FromP1xP1", 0, 0)>>)

BasepointMulSteps(x) ==
    LET digits == signedRadix16(x)
        odd    == BasepointLoopSteps(digits, 1,
                      <<Step("signedRadix16", 0, 0), Step("Zero", 0, 0)>>)
    IN BasepointLoopSteps(digits, 0, odd \o <<Step("FromP3", 0, 0)>> \o Mul16Steps)

ScalarMultRun ==
    /\ call.op = "none"
    /\ UNCHANGED <<scs, fes, grp>>
    /\ \E v \in PointIds, q \in PointIds, x \in Scalars :
         IF ~checkInitialized(pts[q])
         THEN /\ call' = Call("ScalarMult", v, <<q>>, <<x>>, <<>>, "panic")
              /\ pts' = pts
         ELSE /\ call' = Call("ScalarMult", v, <<q>>, <<x>>, ScalarMulSteps(x), "v")
              /\ pts' = ScalarMul(pts, v, x, q)

ScalarBaseMultRun ==
    /\ call.op = "none"
    /\ UNCHANGED <<scs, fes, grp>>
    /\ \E v \in PointIds, x \in Scalars :
         /\ call' = Call("ScalarBaseMult", v, <<>>, <<x>>, BasepointMulSteps(x), "v")
         /\ pts' = BasepointMul(pts, v, x)

MultiScalarMultRunCall ==
    /\ call.op = "none"
    /\ UNCHANGED <<scs, fes, grp>>
    /\ \E v \in PointIds, n \in 0..MaxN :
         \E scalars \in ScalarSeqs(n), points \in PointSeqs(n) :
            IF MultiScalarMultEntry(pts, scalars, points) # "ok"
            THEN /\ call' = Call("MultiScalarMult", v, points, scalars, <<>>, "panic")
                 /\ pts' = pts
            ELSE /\ call' = Call("MultiScalarMult", v, points, scalars,
                                 MultiScalarMultSteps(scalars, points), "v")
                 /\ pts' = MultiScalarMult(pts, v, scalars, points)

NextSteps == ScalarMultRun \/ ScalarBaseMultRun \/ MultiScalarMultRunCall

SpecSteps == Init /\ [][NextSteps]_vars

\* The steps of the same call with every scalar zero and every point the
\* first Point: they depend on the operation and the number of scalars only.
ReferenceSteps(op, n) ==
    CASE op = "ScalarMult"      -> ScalarMulSteps(ScFromInt(0))
      [] op = "ScalarBaseMult"  -> BasepointMulSteps(ScFromInt(0))
      [] op = "MultiScalarMult" -> MultiScalarMultSteps([j \in 1..n |-> ScFromInt(0)],
                                                        [j \in 1..n |-> "v"])

\* C20: the steps executed by a ScalarMult, ScalarBaseMult or
\* MultiScalarMult that returned are those of the same call with every
\* scalar zero: the same table builds, lookups, doublings and additions in
\* the same order whatever the scalars; for MultiScalarMult they are
\* determined by the length of the slices.
C20_SameSteps ==
    (call.op \in {"ScalarMult", "ScalarBaseMult", "MultiScalarMult"} /\ call.ret = "v") =>
        call.bytes = ReferenceSteps(call.op, Len(call.scalars))

\* C20 witness: MultiScalarMult has run on MaxN scalars, among them 0 and
\* l - 1, whose digits differ in sign and size.
C20_Witness ==
    /\ call.op = "MultiScalarMult" /\ call.ret = "v"
    /\ Len(call.scalars) = MaxN
    /\ \E i, j \in 1..MaxN : call.scalars[i] = ScFromInt(0) /\ call.scalars[j] = ScFromInt(L - 1)
    /\ Len(call.bytes) > 100

\* C20 witness: ScalarMult has run on a scalar with a zero digit, a
\* negative digit and a positive one.
C20_WitnessScalarMult ==
    /\ call.op = "ScalarMult" /\ call.ret = "v"
    /\ \E i, j, k \in 1..NumDigits :
         LET d == signedRadix16(call.scalars[1])
         IN d[i] = 0 /\ d[j] < 0 /\ d[k] > 0
    /\ call.bytes # <<>>

\* C20 witness: ScalarBaseMult has run on the scalar 8, whose digits are
\* -8 and 1.
C20_WitnessBase ==
    /\ call.op = "ScalarBaseMult" /\ call.ret = "v"
    /\ call.scalars = <<ScFromInt(8)>>
    /\ signedRadix16(call.scalars[1])[1] = -8
    /\ call.bytes # <<>>----------------------------------------------------------------------------
(* Package-level variables and the hazmat package: SpecHazmat *)

\* The package-level variables of the library: the hazmat acknowledgement
\* flag, the curve constants, the field constants and the basepoint table.
\* In SpecHazmat they are the value of grp.
PackageVariables ==
    [youAskedForIt |-> FALSE, D |-> D, d2 |-> d2, sqrtM1 |-> sqrtM1,
     zero |-> 0, one |-> 1, generator |-> Generator,
     basepointTable |-> basepointTable]

\* BewareOfTheLeopard, but flipping the flag.
BewareOfTheLeopardToggle(g) == [g EXCEPT !.youAskedForIt = ~g.youAskedForIt]

\* hazmat.BewareOfTheLeopard: youAskedForIt = true.
BewareOfTheLeopard(g) == [g EXCEPT !.youAskedForIt = TRUE]

\* NewPointFromExtendedCoordinates, but acknowledging on the caller's behalf
\* instead of panicking.
NewPointFromExtendedCoordinatesAcknowledging(g, h, v, x, y, z, t) ==
    [globals |-> [g EXCEPT !.youAskedForIt = TRUE],
     heap |-> [h EXCEPT ![v] = PointRec(x, y, z, t)], ret |-> "ok"]

\* hazmat.NewPointFromExtendedCoordinates: panics without the acknowledgement,
\* otherwise a Point with the four coordinates as given, unchecked.
NewPointFromExtendedCoordinates(g, h, v, x, y, z, t) ==
    IF ~g.youAskedForIt
    THEN [globals |-> g, heap |-> h, ret |-> "panic"]
    ELSE [globals |-> g, heap |-> [h EXCEPT ![v] = PointRec(x, y, z, t)],
          ret |-> "ok"]

\* hazmat.PointExtendedCoordinates: panics without the acknowledgement,
\* otherwise copies of the four coordinates of p.
PointExtendedCoordinates(g, h, p) ==
    IF ~g.youAskedForIt
    THEN [globals |-> g, coordinates |-> <<>>, ret |-> "panic"]
    ELSE [globals |-> g,
          coordinates |-> <<h[p].x, h[p].y, h[p].z, h[p].t>>, ret |-> "ok"]

\* Two threads, each with a Point of its own.
Threads == {"v", "p"}

HazmatCoordinates ==
    { <<0, 0, 0, 0>>, <<2, 3, 1, 6>>, <<0, 1, 1, 0>>,
      <<Generator.x, Generator.y, Generator.z, Generator.t>> }

\* The call record of SpecHazmat also holds the package-level variables
\* before the call and whether BewareOfTheLeopard had returned before it.
HazmatCall(op, v, bytes, ret, acknowledged) ==
    [globals |-> grp, acknowledged |-> acknowledged]
        @@ Call(op, v, <<>>, <<>>, bytes, ret)

\* Whether a call of BewareOfTheLeopard has returned so far.
Acknowledged == call.acknowledged \/ call.op = "BewareOfTheLeopard"

InitHazmat ==
    /\ pts \in { [i \in PointIds |-> IF i = "q" THEN Generator ELSE a] :
                 a \in {ZeroValue, Identity} }
    /\ scs = Unused /\ fes = Unused
    /\ grp = PackageVariables
    /\ call = [globals |-> PackageVariables, acknowledged |-> FALSE] @@ NoCall

BewareOfTheLeopardCall ==
    \E v \in Threads :
        /\ grp' = BewareOfTheLeopard(grp)
        /\ call' = HazmatCall("BewareOfTheLeopard", v, <<>>, "ok", Acknowledged)
        /\ UNCHANGED <<pts, scs, fes>>

NewPointFromExtendedCoordinatesCall ==
    \E v \in Threads, c \in HazmatCoordinates :
        /\ grp' = NewPointFromExtendedCoordinates(grp, pts, v, c[1], c[2], c[3], c[4]).globals
        /\ pts' = NewPointFromExtendedCoordinates(grp, pts, v, c[1], c[2], c[3], c[4]).heap
        /\ call' = HazmatCall("NewPointFromExtendedCoordinates", v, c,
                        NewPointFromExtendedCoordinates(grp, pts, v, c[1], c[2], c[3], c[4]).ret,
                        Acknowledged)
        /\ UNCHANGED <<scs, fes>>

PointExtendedCoordinatesCall ==
    \E v \in Threads :
        /\ grp' = PointExtendedCoordinates(grp, pts, v).globals
        /\ call' = HazmatCall("PointExtendedCoordinates", v,
                        PointExtendedCoordinates(grp, pts, v).coordinates,
                        PointExtendedCoordinates(grp, pts, v).ret,
                        Acknowledged)
        /\ UNCHANGED <<pts, scs, fes>>

\* The operations of the edwards25519 package read d2 (Add), the basepoint
\* table (ScalarBaseMult) and the field constants, and assign to none of them.
LibraryCall ==
    \E v \in Threads, op \in {"Add", "Negate", "ScalarBaseMult"} :
        /\ pts' = CASE op = "Add" -> [pts EXCEPT ![v] = PointAdd(pts["q"], pts["q"])]
                    [] op = "Negate" -> [pts EXCEPT ![v] = PointNegate(pts["q"])]
                    [] OTHER -> BasepointMul(pts, v, ScFromInt(3))
        /\ call' = HazmatCall(op, v, <<>>, "ok", Acknowledged)
        /\ UNCHANGED <<scs, fes, grp>>

NextHazmat ==
    \/ BewareOfTheLeopardCall
    \/ NewPointFromExtendedCoordinatesCall
    \/ PointExtendedCoordinatesCall
    \/ LibraryCall

SpecHazmat == InitHazmat /\ [][NextHazmat]_vars

C21_WitnessShared ==
    /\ call.op = "NewPointFromExtendedCoordinates" /\ call.v = "p"
    /\ call.ret = "ok" /\ pts["p"] # call.pre["p"]
    /\ pts["v"] = call.pre["v"]

\* C30: a call of NewPointFromExtendedCoordinates or PointExtendedCoordinates
\* panics exactly when no call of BewareOfTheLeopard has returned before it,
\* and no operation clears the flag once it is set.
C30_Acknowledgement ==
    /\ call.op \in {"NewPointFromExtendedCoordinates", "PointExtendedCoordinates"}
        => (call.ret = "panic" <=> ~call.acknowledged)
    /\ call.globals.youAskedForIt => grp.youAskedForIt

\* C30: a call before the first acknowledgement has panicked.
C30_Witness ==
    /\ call.op = "NewPointFromExtendedCoordinates" /\ call.ret = "panic"
    /\ ~call.acknowledged /\ pts = call.pre

\* C30: a call after the acknowledgement has returned the coordinates.
C30_WitnessAfter ==
    /\ call.op = "PointExtendedCoordinates" /\ call.ret = "ok"
    /\ call.acknowledged /\ call.bytes = <<0, 0, 0, 0>>

\* C30: a second call of BewareOfTheLeopard leaves the flag set.
C30_WitnessTwice ==
    /\ call.op = "BewareOfTheLeopard" /\ call.acknowledged
    /\ call.globals.youAskedForIt /\ grp.youAskedForIt
---------------------------------------------------------------------------
(* The argument of MultByPrimeOrder *)

\* C22: after MultByPrimeOrder(p) on a receiver that is another object than
\* p, p holds what it held at entry.
C22_ArgumentNotWritten ==
    (call.op = "MultByPrimeOrder" /\ call.points[1] # call.v)
        => grp[call.points[1]] = EntryArgument
---------------------------------------------------------------------------
(* The Z coordinate of an accepted tuple *)

\* C23: every tuple SetExtendedCoordinates accepts has Z # 0 and is stored as
\* a Point denoting (X/Z, Y/Z) on the curve with T/Z = xy.
C23_AcceptedHasNonzeroZ ==
    (call.op = "SetExtendedCoordinates" /\ call.ret = "v") =>
        /\ call.bytes[3] # 0
        /\ Valid(pts[call.v])
---------------------------------------------------------------------------
(* Full-size limbs: uint64 arithmetic of src/fe.go and internal/field *)

\* A uint64 is held as four pieces, least significant first: three of
\* PieceBits bits (the low 51 bits of the word) and one of 13 bits.
PieceBits == 17

PieceBase == 2^PieceBits

TopBase == 2^(64 - 3 * PieceBits)

U64FromInt(n) == <<n % PieceBase, n \div PieceBase, 0, 0>>

U64Pow2(k) == [j \in 1..4 |-> IF j = (k \div PieceBits) + 1 THEN 2^(k % PieceBits) ELSE 0]

\* x + y and x - y on uint64, which wrap modulo 2^64.
U64AddTop(x, y) ==
    LET s1 == x[1] + y[1]
        s2 == x[2] + y[2] + (s1 \div PieceBase)
        s3 == x[3] + y[3] + (s2 \div PieceBase)
    IN x[4] + y[4] + (s3 \div PieceBase)

U64Add(x, y) ==
    LET s1 == x[1] + y[1]
        s2 == x[2] + y[2] + (s1 \div PieceBase)
        s3 == x[3] + y[3] + (s2 \div PieceBase)
    IN <<s1 % PieceBase, s2 % PieceBase, s3 % PieceBase, U64AddTop(x, y) % TopBase>>

U64AddWraps(x, y) == U64AddTop(x, y) >= TopBase

U64SubTop(x, y) ==
    LET s1 == x[1] - y[1]
        s2 == x[2] - y[2] + (s1 \div PieceBase)
        s3 == x[3] - y[3] + (s2 \div PieceBase)
    IN x[4] - y[4] + (s3 \div PieceBase)

U64Sub(x, y) ==
    LET s1 == x[1] - y[1]
        s2 == x[2] - y[2] + (s1 \div PieceBase)
        s3 == x[3] - y[3] + (s2 \div PieceBase)
    IN <<s1 % PieceBase, s2 % PieceBase, s3 % PieceBase, U64SubTop(x, y) % TopBase>>

U64SubWraps(x, y) == U64SubTop(x, y) < 0

U64LessEq(x, y) ==
    \/ x = y
    \/ \E j \in 1..4 : x[j] < y[j] /\ \A k \in (j + 1)..4 : x[k] = y[k]

\* x >> 51, a number below 2^13, and x & maskLow51Bits.
ShiftRight51(x) == x[4]

MaskLow51(x) == <<x[1], x[2], x[3], 0>>

\* A FieldElement under computation: its five limbs, and whether any
\* addition or subtraction made on the way wrapped.
Limbs64(l0, l1, l2, l3, l4) == [l |-> <<l0, l1, l2, l3, l4>>, wrapped |-> FALSE]

feZero64 == Limbs64(U64FromInt(0), U64FromInt(0), U64FromInt(0), U64FromInt(0), U64FromInt(0))

\* v.l_i += w
LimbAdd(v, i, w) ==
    [l |-> [v.l EXCEPT ![i] = U64Add(@, w)],
     wrapped |-> v.wrapped \/ U64AddWraps(v.l[i], w)]

\* v.l_i -= w
LimbSub(v, i, w) ==
    [l |-> [v.l EXCEPT ![i] = U64Sub(@, w)],
     wrapped |-> v.wrapped \/ U64SubWraps(v.l[i], w)]

\* v.l_i &= maskLow51Bits
LimbMask(v, i) == [v EXCEPT !.l[i] = MaskLow51(@)]

\* v.l_(i+1) += v.l_i >> 51; v.l_i &= maskLow51Bits
CarryInto(v, i) == LimbMask(LimbAdd(v, i + 1, U64FromInt(ShiftRight51(v.l[i]))), i)

carryPropagate1(v) == CarryInto(CarryInto(CarryInto(v, 1), 2), 3)

\* carryPropagate2, but with the carry out of l4 dropped.
carryPropagate2Dropping(v) == LimbMask(CarryInto(v, 4), 5)

carryPropagate2(v) ==
    LET v4 == CarryInto(v, 4)
    IN LimbMask(LimbAdd(v4, 1, U64FromInt(ShiftRight51(v4.l[5]) * 19)), 5)

\* The arm64 assembly and, by the description of the carry pass, the generic
\* routine of internal/field: the same five steps.
carryPropagate(v) == carryPropagate2(carryPropagate1(v))

RECURSIVE LimbwiseAdd(_, _, _)
LimbwiseAdd(v, b, i) ==
    IF Evaluated(v) /\ i > 5 THEN v ELSE LimbwiseAdd(LimbAdd(v, i, b[i]), b, i + 1)

RECURSIVE LimbwiseSub(_, _, _)
LimbwiseSub(v, b, i) ==
    IF Evaluated(v) /\ i > 5 THEN v ELSE LimbwiseSub(LimbSub(v, i, b[i]), b, i + 1)

\* v.l_i = a.l_i + b.l_i, then the two halves of the carry pass.
FieldElementAdd(a, b) == carryPropagate2(carryPropagate1(LimbwiseAdd(a, b.l, 1)))

\* Subtract, but with 2^53 - 2 added to limbs 1..4.
SubtractConstantsMidLimb53 ==
    <<U64Sub(U64Pow2(52), U64FromInt(38)), U64Sub(U64Pow2(53), U64FromInt(2)),
      U64Sub(U64Pow2(53), U64FromInt(2)), U64Sub(U64Pow2(53), U64FromInt(2)),
      U64Sub(U64Pow2(53), U64FromInt(2))>>

\* Bit n of a hexadecimal literal, given as its digits in the order written.
HexBit(d, n) == IF n >= 4 * Len(d) THEN 0 ELSE (d[Len(d) - (n \div 4)] \div 2^(n % 4)) % 2

RECURSIVE HexPiece(_, _, _)
HexPiece(d, from, n) ==
    IF n = 0 THEN 0 ELSE HexBit(d, from) + 2 * HexPiece(d, from + 1, n - 1)

U64FromHex(d) ==
    [j \in 1..4 |-> HexPiece(d, PieceBits * (j - 1), IF j = 4 THEN 64 - 3 * PieceBits ELSE PieceBits)]

\* 0xFFFFFFFFFFFDA and, four times, 0xFFFFFFFFFFFFE.
SubtractConstants ==
    <<U64FromHex(<<15, 15, 15, 15, 15, 15, 15, 15, 15, 15, 15, 13, 10>>),
      U64FromHex(<<15, 15, 15, 15, 15, 15, 15, 15, 15, 15, 15, 15, 14>>),
      U64FromHex(<<15, 15, 15, 15, 15, 15, 15, 15, 15, 15, 15, 15, 14>>),
      U64FromHex(<<15, 15, 15, 15, 15, 15, 15, 15, 15, 15, 15, 15, 14>>),
      U64FromHex(<<15, 15, 15, 15, 15, 15, 15, 15, 15, 15, 15, 15, 14>>)>>

\* v.l_i = (a.l_i + constant_i) - b.l_i, then the two halves of the carry pass.
FieldElementSubtract(a, b) ==
    carryPropagate2(carryPropagate1(LimbwiseSub(LimbwiseAdd(a, SubtractConstants, 1), b.l, 1)))

FieldElementNegate(a) == FieldElementSubtract(feZero64, a)

\* internal/field: the same statements, followed by carryPropagate.
ElementSubtract64(a, b) ==
    carryPropagate(LimbwiseSub(LimbwiseAdd(a, SubtractConstants, 1), b.l, 1))

ElementNegate64(a) == ElementSubtract64(feZero64, a)
---------------------------------------------------------------------------
(* The integer a FieldElement represents, in radix 2^PieceBits *)

NumLevels == 16

LimbPiece(e, i, j) == IF i \in 1..5 THEN e[i][j] ELSE 0

\* The pieces of the five limbs that weigh 2^(PieceBits * (k - 1)), added up:
\* limb i weighs 2^(51 * (i - 1)), so its 13-bit piece meets the lowest
\* piece of limb i + 1.
Levels(e) ==
    [k \in 1..NumLevels |->
        LimbPiece(e, ((k - 1) \div 3) + 1, ((k - 1) % 3) + 1)
        + (IF (k - 1) % 3 = 0 THEN LimbPiece(e, (k - 1) \div 3, 4) ELSE 0)]

\* p = 2^255 - 19, and k * p + x + y.
PLevels ==
    [k \in 1..NumLevels |->
        IF k = 1 THEN PieceBase - 19 ELSE IF k <= 15 THEN PieceBase - 1 ELSE 0]

PlusMultipleOfP(k, x, y) == [i \in 1..NumLevels |-> k * PLevels[i] + x[i] + y[i]]

NoLevels == [k \in 1..NumLevels |-> 0]

\* The digits of the integer: the levels with the carries taken through.
RECURSIVE CarryLevels(_, _, _, _)
CarryLevels(s, i, carry, acc) ==
    IF Evaluated(acc) /\ i > Len(s) THEN Append(acc, carry)
    ELSE CarryLevels(s, i + 1, (s[i] + carry) \div PieceBase,
                     Append(acc, (s[i] + carry) % PieceBase))

Digits(s) == CarryLevels(s, 1, 0, <<>>)

\* x is congruent to y modulo p, for x and y that differ by at most 8 * p.
Congruent(x, y) ==
    \E k \in 0..8 :
        \/ Digits(PlusMultipleOfP(k, x, NoLevels)) = Digits(y)
        \/ Digits(PlusMultipleOfP(k, y, NoLevels)) = Digits(x)

\* l0 <= 2^51 + 2^13 * 19 and l1..l4 <= 2^51 - 1.
InBounds(e) ==
    /\ U64LessEq(e[1], U64Add(U64Pow2(51), U64FromInt(2^13 * 19)))
    /\ \A i \in 2..5 : U64LessEq(e[i], U64Sub(U64Pow2(51), U64FromInt(1)))

\* Every limb below 2^52.
Below52(e) == \A i \in 1..5 : U64LessEq(e[i], U64Sub(U64Pow2(52), U64FromInt(1)))

---------------------------------------------------------------------------
(* Add, Subtract and Negate on limbs at and around the bounds: SpecLimbs *)

\* Values of l0 and of l1..l4, up to the bound of the carry pass and up to
\* 2^52 - 1.
LowLimbs ==
    { U64FromInt(0), U64FromInt(1), U64FromInt(37), U64FromInt(38),
      U64Sub(U64Pow2(51), U64FromInt(19)), U64Sub(U64Pow2(51), U64FromInt(1)),
      U64Pow2(51), U64Add(U64Pow2(51), U64FromInt(2^13 * 19)),
      U64Sub(U64Pow2(52), U64FromInt(38)), U64Sub(U64Pow2(52), U64FromInt(1)) }

HighLimbs ==
    { <<U64FromInt(x), U64FromInt(x), U64FromInt(x), U64FromInt(x)>> : x \in {0, 1} }
    \cup { <<U64Sub(U64Pow2(51), U64FromInt(1)), U64Sub(U64Pow2(51), U64FromInt(1)),
             U64Sub(U64Pow2(51), U64FromInt(1)), U64Sub(U64Pow2(51), U64FromInt(1))>>,
           <<U64FromInt(0), U64Sub(U64Pow2(51), U64FromInt(1)), U64FromInt(0),
             U64Sub(U64Pow2(51), U64FromInt(1))>>,
           <<U64Sub(U64Pow2(52), U64FromInt(1)), U64FromInt(0), U64FromInt(0), U64FromInt(0)>>,
           <<U64FromInt(2), U64FromInt(3), U64Sub(U64Pow2(52), U64FromInt(2)),
             U64Sub(U64Pow2(52), U64FromInt(1))>> }

LimbElements == { Limbs64(l0, h[1], h[2], h[3], h[4]) : l0 \in LowLimbs, h \in HighLimbs }

InitLimbs ==
    /\ pts = Unused /\ scs = Unused /\ grp = Unused
    /\ fes \in [{"a", "b"} -> LimbElements]
    /\ call = [op |-> "none", ret |-> feZero64]

FieldElementAddCall ==
    /\ call.op = "none"
    /\ call' = [op |-> "FieldElement.Add", ret |-> FieldElementAdd(fes["a"], fes["b"])]
    /\ UNCHANGED <<pts, scs, fes, grp>>

FieldElementSubtractCall ==
    /\ call.op = "none"
    /\ call' = [op |-> "FieldElement.Subtract",
                ret |-> FieldElementSubtract(fes["a"], fes["b"])]
    /\ UNCHANGED <<pts, scs, fes, grp>>

FieldElementNegateCall ==
    /\ call.op = "none"
    /\ call' = [op |-> "FieldElement.Negate", ret |-> FieldElementNegate(fes["a"])]
    /\ UNCHANGED <<pts, scs, fes, grp>>

ElementSubtractCall ==
    /\ call.op = "none"
    /\ call' = [op |-> "Element.Subtract", ret |-> ElementSubtract64(fes["a"], fes["b"])]
    /\ UNCHANGED <<pts, scs, fes, grp>>

ElementNegateCall ==
    /\ call.op = "none"
    /\ call' = [op |-> "Element.Negate", ret |-> ElementNegate64(fes["b"])]
    /\ UNCHANGED <<pts, scs, fes, grp>>

NextLimbs ==
    \/ FieldElementAddCall
    \/ FieldElementSubtractCall
    \/ FieldElementNegateCall
    \/ ElementSubtractCall
    \/ ElementNegateCall

SpecLimbs == InitLimbs /\ [][NextLimbs]_vars

\* What the call's result has to be congruent to, as left = right modulo p:
\* result = a + b, result + b = a, or result + operand = 0.
ResultCongruent ==
    LET a == Levels(fes["a"].l)
        b == Levels(fes["b"].l)
        r == Levels(call.ret.l)
    IN CASE call.op = "FieldElement.Add" -> Congruent(r, PlusMultipleOfP(0, a, b))
         [] call.op \in {"FieldElement.Subtract", "Element.Subtract"} ->
                Congruent(PlusMultipleOfP(0, r, b), a)
         [] call.op = "FieldElement.Negate" -> Congruent(PlusMultipleOfP(0, r, a), NoLevels)
         [] call.op = "Element.Negate" -> Congruent(PlusMultipleOfP(0, r, b), NoLevels)
         [] OTHER -> TRUE

\* C24: Add, Subtract and Negate of src/fe.go on operands whose limbs satisfy
\* l0 <= 2^51 + 2^13*19 and l1..l4 <= 2^51 - 1 wrap no 64-bit limb, leave
\* limbs within the same bounds, and represent a + b, a - b and -a modulo p.
C24_BoundsClosed ==
    (/\ call.op \in {"FieldElement.Add", "FieldElement.Subtract", "FieldElement.Negate"}
     /\ InBounds(fes["a"].l)
     /\ call.op # "FieldElement.Negate" => InBounds(fes["b"].l))
        => /\ ~call.ret.wrapped
           /\ InBounds(call.ret.l)
           /\ ResultCongruent

\* C24: both operands of an Add are at the bounds in every limb, and carries
\* ran through every limb and out of the last.
C24_Witness ==
    /\ call.op = "FieldElement.Add"
    /\ \A n \in {"a", "b"} :
         /\ fes[n].l[1] = U64Add(U64Pow2(51), U64FromInt(2^13 * 19))
         /\ \A i \in 2..5 : fes[n].l[i] = U64Sub(U64Pow2(51), U64FromInt(1))
    /\ call.ret.l[1] = U64FromInt(2 * (2^13 * 19) + 2 * 19)

\* C24: a Subtract of the largest operand from zero.
C24_WitnessSubtract ==
    /\ call.op = "FieldElement.Subtract"
    /\ fes["a"] = feZero64
    /\ fes["b"].l[1] = U64Add(U64Pow2(51), U64FromInt(2^13 * 19))
    /\ \A i \in 2..5 : fes["b"].l[i] = U64Sub(U64Pow2(51), U64FromInt(1))
    /\ ~call.ret.wrapped

\* C24: a Negate of an operand at the bounds.
C24_WitnessNegate ==
    /\ call.op = "FieldElement.Negate"
    /\ fes["a"].l[1] = U64Add(U64Pow2(51), U64FromInt(2^13 * 19))
    /\ fes["a"].l[5] = U64Sub(U64Pow2(51), U64FromInt(1))
    /\ InBounds(call.ret.l)
\* C26: Subtract and Negate of internal/field on operands whose limbs are all
\* below 2^52 underflow no 64-bit limb and give a - b and -b modulo p.
C26_SubtractBelow52 ==
    (/\ call.op \in {"Element.Subtract", "Element.Negate"}
     /\ Below52(fes["b"].l)
     /\ call.op = "Element.Subtract" => Below52(fes["a"].l))
        => ~call.ret.wrapped /\ ResultCongruent

\* C27 (as the code has it): Subtract adds 2^52 - 38 to limb 0 and 2^52 - 2
\* to each of limbs 1..4; as a radix-2^51 number these are exactly 2p, so the
\* minuend with the constants added is congruent to the minuend.
C27_SubtractConstantsAreTwoP ==
    call.op \in {"FieldElement.Subtract", "Element.Subtract"} =>
        /\ SubtractConstants[1] = U64Sub(U64Pow2(52), U64FromInt(38))
        /\ \A i \in 2..5 : SubtractConstants[i] = U64Sub(U64Pow2(52), U64FromInt(2))
        /\ Digits(Levels(SubtractConstants)) = Digits(PlusMultipleOfP(2, NoLevels, NoLevels))
        /\ Congruent(PlusMultipleOfP(0, Levels(fes["a"].l), Levels(SubtractConstants)),
                     Levels(fes["a"].l))

\* C27 as stated: 2^52 - 38 for limb 0 and 2^53 - 2 for limbs 1..4, a
\* multiple of p.
C27_MidLimbConstants53 ==
    call.op \in {"FieldElement.Subtract", "Element.Subtract"} =>
        /\ SubtractConstants[1] = U64Sub(U64Pow2(52), U64FromInt(38))
        /\ \A i \in 2..5 : SubtractConstants[i] = U64Sub(U64Pow2(53), U64FromInt(2))
        /\ Congruent(Levels(SubtractConstants), NoLevels)

\* C27: a Subtract has added the constants to a non-zero minuend and
\* subtracted a non-zero subtrahend without a wrap.
C27_Witness ==
    /\ call.op = "FieldElement.Subtract"
    /\ fes["a"].l[1] = U64Sub(U64Pow2(51), U64FromInt(19))
    /\ fes["b"].l[1] = U64Add(U64Pow2(51), U64FromInt(2^13 * 19))
    /\ fes["b"].l[2] = U64Sub(U64Pow2(51), U64FromInt(1))
    /\ ~call.ret.wrapped /\ ResultCongruent

\* C27: the same in internal/field.
C27_WitnessElement ==
    /\ call.op = "Element.Subtract"
    /\ fes["a"].l[1] = U64FromInt(1) /\ fes["b"].l[1] = U64FromInt(38)
    /\ ~call.ret.wrapped /\ ResultCongruent
---------------------------------------------------------------------------
(* SqrtRatio with the receiver one of its arguments *)

\* C25: SqrtRatio(u, v) leaves in its receiver, and returns as wasSquare,
\* what it does with a receiver distinct from u and v, also when the receiver
\* is u or is v; an argument that is not the receiver is not written.
C25_SqrtRatioAliased ==
    call.op = "SqrtRatio" =>
        LET distinct == ElementSqrtRatio(call.pre, "v", "x", "y")
        IN /\ fes[call.v] = distinct.heap["v"]
           /\ call.scalars = <<distinct.wasSquare>>
           /\ \A i \in {"x", "y"} \ {call.v} : fes[i] = call.pre[i]
---------------------------------------------------------------------------
(* The signed radix-16 digits of every reduced scalar: SpecRadix *)

InitRadix ==
    /\ pts = Unused /\ fes = Unused /\ grp = Unused
    /\ scs \in { [s |-> ScFromInt(n)] : n \in 0..(L - 1) }
    /\ call = [op |-> "none", digits |-> <<>>]

SignedRadix16Call ==
    /\ call.op = "none"
    /\ call' = [op |-> "signedRadix16", digits |-> signedRadix16(scs["s"])]
    /\ UNCHANGED <<pts, scs, fes, grp>>

NextRadix == SignedRadix16Call

SpecRadix == InitRadix /\ [][NextRadix]_vars

RECURSIVE DigitsValue(_, _)
DigitsValue(digits, i) ==
    IF i > Len(digits) THEN 0 ELSE digits[i] + 16 * DigitsValue(digits, i + 1)

\* The carry the recentring moves into digit i (index i + 1) of s.
RECURSIVE CarryIntoDigit(_, _)
CarryIntoDigit(s, i) ==
    IF i = 0 THEN 0 ELSE (Nibbles(s)[i] + CarryIntoDigit(s, i - 1) + 8) \div 16

\* C28: for every reduced scalar s, signedRadix16 returns one digit per
\* nibble with s = sum of d_i * 16^i, every digit but the last in [-8, 8],
\* the last digit the top nibble plus the carry into it, unadjusted and
\* non-negative, and every digit of magnitude at most 8.
C28_SignedRadix16 ==
    call.op = "signedRadix16" =>
        LET d == call.digits
            n == Len(d)
        IN /\ n = NumDigits
           /\ LittleEndian(scs["s"]) < L
           /\ DigitsValue(d, 1) = LittleEndian(scs["s"])
           /\ \A i \in 1..(n - 1) : d[i] >= -8 /\ d[i] <= 8
           /\ d[n] = Nibbles(scs["s"])[n] + CarryIntoDigit(scs["s"], n - 1)
           /\ d[n] >= 0
           /\ \A i \in 1..n : Abs(d[i]) <= 8

\* C28: the largest reduced scalar; a carry ran through the digits into the
\* last one.
C28_Witness ==
    /\ call.op = "signedRadix16"
    /\ LittleEndian(scs["s"]) = L - 1
    /\ call.digits[1] = -2
    /\ call.digits[NumDigits] = 1

\* C28: a scalar whose top nibble is 0 and whose last digit is the carry.
C28_WitnessCarry ==
    /\ call.op = "signedRadix16"
    /\ Nibbles(scs["s"])[NumDigits] = 0
    /\ call.digits[NumDigits] = 1
    /\ call.digits[NumDigits - 1] = -8
---------------------------------------------------------------------------
(* radix51 FieldElement.CondNeg and Abs on a heap of elements: SpecCondNeg *)

\* Reduce: the carry pass, the carry bit of v + 19, the conditional
\* addition of 19 and a second pass without the last fold.
Radix51Reduce(u) ==
    LET v  == carryPropagate(u)
        c0 == ShiftRight51(U64Add(v.l[1], U64FromInt(19)))
        c1 == ShiftRight51(U64Add(v.l[2], U64FromInt(c0)))
        c2 == ShiftRight51(U64Add(v.l[3], U64FromInt(c1)))
        c3 == ShiftRight51(U64Add(v.l[4], U64FromInt(c2)))
        c  == ShiftRight51(U64Add(v.l[5], U64FromInt(c3)))
        w  == LimbAdd(v, 1, U64FromInt(19 * c))
    IN LimbMask(CarryInto(CarryInto(CarryInto(CarryInto(w, 1), 2), 3), 4), 5)

\* t := *b, the carry pass on t, then v[i] = (a[i] + constant) - t[i].
Radix51Sub(h, v, a, b) ==
    [h EXCEPT ![v] = LimbwiseSub(LimbwiseAdd(h[a], SubtractConstants, 1),
                                 carryPropagate(h[b]).l, 1)]

Radix51Neg(h, v, a) == Radix51Sub(h, v, "Zero", a)

\* v[i] = (m & a[i]) | (^m & b[i]) with m all ones for cond = 1.
Radix51Select(h, v, a, b, cond) == [h EXCEPT ![v] = IF cond = 1 THEN h[a] ELSE h[b]]

\* return v.Select(v.Neg(u), u, cond): the negation is written to v first.
Radix51CondNeg(h, v, u, cond) == Radix51Select(Radix51Neg(h, v, u), v, v, u, cond)

\* The low bit of the encoding of the reduced element.
Radix51IsNegative(h, v) == Radix51Reduce(h[v]).l[1][1] % 2

\* return v.CondNeg(u, u.IsNegative())
Radix51Abs(h, v, u) == Radix51CondNeg(h, v, u, Radix51IsNegative(h, u))

\* Small values of either sign bit, 2^255 - 1, p, p - 1 and p - 2, and two
\* elements whose limb 0 carries into limb 1.
Radix51Elements ==
    LET m == U64Sub(U64Pow2(51), U64FromInt(1))
        z == U64FromInt(0)
    IN { Limbs64(U64FromInt(n), z, z, z, z) : n \in {0, 1, 2, 3, 38, 2^13 * 19} }
       \cup { Limbs64(U64Sub(U64Pow2(51), U64FromInt(n)), m, m, m, m) : n \in {1, 19, 20, 21} }
       \cup { Limbs64(U64Add(U64Pow2(51), U64FromInt(n)), m, z, m, z) : n \in {0, 1} }

InitCondNeg ==
    /\ pts = Unused /\ scs = Unused /\ grp = Unused
    /\ fes \in { [i \in {"v", "u", "Zero"} |->
                    CASE i = "v" -> a [] i = "u" -> b [] OTHER -> feZero64] :
                 a \in {feZero64, Limbs64(U64FromInt(7), U64FromInt(0), U64FromInt(0),
                                          U64FromInt(0), U64FromInt(0))},
                 b \in Radix51Elements }
    /\ call = [op |-> "none", v |-> "v", cond |-> 0, pre |-> fes]

CondNegCall ==
    /\ call.op = "none"
    /\ \E v \in {"v", "u"}, cond \in {0, 1} :
         /\ fes' = Radix51CondNeg(fes, v, "u", cond)
         /\ call' = [op |-> "CondNeg", v |-> v, cond |-> cond, pre |-> fes]
    /\ UNCHANGED <<pts, scs, grp>>

AbsCall ==
    /\ call.op = "none"
    /\ \E v \in {"v", "u"} :
         /\ fes' = Radix51Abs(fes, v, "u")
         /\ call' = [op |-> "Abs", v |-> v, cond |-> Radix51IsNegative(fes, "u"), pre |-> fes]
    /\ UNCHANGED <<pts, scs, grp>>

NextCondNeg == CondNegCall \/ AbsCall

SpecCondNeg == InitCondNeg /\ [][NextCondNeg]_vars

\* C29: CondNeg(u, cond) leaves in its receiver u for cond = 0 and -u for
\* cond = 1, and Abs(u) leaves |u|, the same field element whether the
\* receiver is u itself or another object.
C29_CondNegAliased ==
    call.op \in {"CondNeg", "Abs"} =>
        LET u == Levels(call.pre["u"].l)
            r == Levels(fes[call.v].l)
            distinct == Radix51CondNeg([call.pre EXCEPT !["v"] = feZero64], "v", "u", call.cond)
        IN /\ Congruent(r, Levels(distinct["v"].l))
           /\ IF call.cond = 0 THEN Congruent(r, u)
              ELSE Congruent(PlusMultipleOfP(0, r, u), NoLevels)
           /\ call.op = "Abs" => Radix51IsNegative(fes, call.v) = 0
====
